---- MODULE Spec2Model ----
(***************************************************************************)
(* Model of the information-integration proxy engine of                    *)
(* src/orion_pyphi_integration.py (class ORIONPhiComputer and the batch    *)
(* drivers built on it).                                                   *)
(*                                                                         *)
(* Numbers.  The engine computes in floating point; the model computes the *)
(* same expressions in exact rational arithmetic (a pair <<num, den>> in   *)
(* lowest terms, den > 0) and applies round(x, 6) exactly where the code   *)
(* applies it.  Indices.  Python indexes from 0 and TLA+ sequences from 1: *)
(* node i is element i+1 of a row and row r is element r+1 of a table;     *)
(* node sets and cuts keep Python's 0-based node numbers.                  *)
(*                                                                         *)
(* Left out: the timestamps, the elapsed-time readings and the text log    *)
(* (self.computation_log).  They are written and never read by any         *)
(* computation.                                                            *)
(***************************************************************************)
EXTENDS Integers, Sequences, FiniteSets, TLC

(***************************************************************************)
(* Exact rationals                                                         *)
(***************************************************************************)
Abs(x) == IF x < 0 THEN -x ELSE x

RECURSIVE GCD(_, _)
GCD(a, b) == IF b = 0 THEN a ELSE GCD(b, a % b)

Rat(n, d) == LET g == GCD(Abs(n), d) IN <<n \div g, d \div g>>

RZero == <<0, 1>>
ROne == <<1, 1>>

RAdd(x, y) ==
    LET g == GCD(x[2], y[2])
        l == (x[2] \div g) * y[2]
    IN  Rat(x[1] * (l \div x[2]) + y[1] * (l \div y[2]), l)

RSub(x, y) == RAdd(x, <<-y[1], y[2]>>)
RAbs(x) == <<Abs(x[1]), x[2]>>
RMul(x, y) ==
    LET g1 == GCD(Abs(x[1]), y[2])
        g2 == GCD(Abs(y[1]), x[2])
    IN  <<(x[1] \div g1) * (y[1] \div g2), (x[2] \div g2) * (y[2] \div g1)>>
RDivInt(x, k) == RMul(x, <<1, k>>)
RLess(x, y) ==
    LET g == GCD(x[2], y[2])
    IN  x[1] * (y[2] \div g) < y[1] * (x[2] \div g)
RPos(x) == x[1] > 0

\* a sequence given by a rule, written out element by element
List(f) == f \o <<>>

\* Python computes statement by statement: the values in `computed` are
\* worked out, in order, before `result` is
After(computed, result) == IF Len(computed) >= 0 THEN result ELSE result

LCM(a, b) == (a \div GCD(a, b)) * b

RECURSIVE DenLCMOver(_, _, _)
\* the least common denominator of s[lo..hi]
DenLCMOver(s, lo, hi) ==
    IF lo > hi THEN 1
    ELSE IF lo = hi THEN s[lo][2]
    ELSE LCM(DenLCMOver(s, lo, (lo + hi) \div 2),
             DenLCMOver(s, (lo + hi) \div 2 + 1, hi))
\* the least common denominator of a sequence of rationals
DenLCM(s) == DenLCMOver(s, 1, Len(s))

\* the numerators of a sequence of rationals over the denominator l
Numerators(s, l) == List([i \in 1..Len(s) |-> s[i][1] * (l \div s[i][2])])

RECURSIVE IntSumOver(_, _, _)
\* s[lo] + ... + s[hi]
IntSumOver(s, lo, hi) ==
    IF lo > hi THEN 0
    ELSE IF lo = hi THEN s[lo]
    ELSE IntSumOver(s, lo, (lo + hi) \div 2)
         + IntSumOver(s, (lo + hi) \div 2 + 1, hi)

\* sum of a sequence of rationals (numpy's .sum(), Python's sum())
RSumOver(s, l) == Rat(IntSumOver(Numerators(s, l), 1, Len(s)), l)
RSum(s) == After(<<s>>, RSumOver(s, DenLCM(s)))

RECURSIVE Pow2(_)
Pow2(k) == IF k = 0 THEN 1 ELSE 2 * Pow2(k - 1)

\* Python's x >> k & 1
Bit(x, k) == (x \div Pow2(k)) % 2

(***************************************************************************)
(* round(x, 6) for x >= 0: the nearest multiple of 10^-6, a tie going to   *)
(* the even multiple (Python rounds the exact value of the float).         *)
(***************************************************************************)
Digits == 6

RECURSIVE Shift10(_, _, _, _)
\* <<q, r>> with x = (q + r/den) / 10^k after k more decimal digits
Shift10(q, r, den, k) ==
    IF k = 0 THEN <<q, r>>
    ELSE Shift10(q * 10 + ((r * 10) \div den), (r * 10) % den, den, k - 1)

RECURSIVE Pow10(_)
Pow10(k) == IF k = 0 THEN 1 ELSE 10 * Pow10(k - 1)

\* round(x, ndigits)
pyround(x, ndigits) ==
    LET s == Shift10(x[1] \div x[2], x[1] % x[2], x[2], ndigits)
        q == s[1]
        r == s[2]
        up == (2 * r > x[2]) \/ (2 * r = x[2] /\ q % 2 = 1)
    IN  Rat(IF up THEN q + 1 ELSE q, Pow10(ndigits))

round6(x) == pyround(x, Digits)

(***************************************************************************)
(* ORIONPhiComputer._emd_simple                                            *)
(***************************************************************************)
\* p / total when total > 0
DividedBy(p, total) ==
    IF RPos(total)
    THEN List([i \in 1..Len(p) |-> RMul(p[i], <<total[2], total[1]>>)])
    ELSE p

\* if p.sum() > 0: p = p / p.sum()
Normalised(p) == After(<<p>>, DividedBy(p, RSum(p)))

\* np.cumsum(s)[k] for a sequence of integers
CumSumTo(s, k) == IntSumOver(s, 1, k)

\* np.sum(np.abs(np.cumsum(p) - np.cumsum(q))), p and q taken over their
\* common denominator
CumAbsDiffOver(pi, qi, l) ==
    After(<<pi, qi>>,
          Rat(IntSumOver(List([k \in 1..Len(pi) |->
                                 Abs(CumSumTo(pi, k) - CumSumTo(qi, k))]),
                         1, Len(pi)),
              l))
CumAbsDiffAt(p, q, l) ==
    After(<<l>>, CumAbsDiffOver(Numerators(p, l), Numerators(q, l), l))
CumAbsDiff(p, q) ==
    After(<<p, q>>, CumAbsDiffAt(p, q, LCM(DenLCM(p), DenLCM(q))))

emd_simple(p, q) == CumAbsDiff(Normalised(p), Normalised(q))

(***************************************************************************)
(* ORIONPhiComputer._distribution_distance                                 *)
(***************************************************************************)
RECURSIVE RowIndex(_, _)
\* sum(state[i] * (2 ** i) for i in range(n))
RowIndex(state, n) ==
    IF n = 0 THEN 0 ELSE RowIndex(state, n - 1) + state[n] * Pow2(n - 1)

RECURSIVE CauseProb(_, _, _)
\* the product, over the first k nodes, of row[ni] or 1 - row[ni]
CauseProb(row, state, k) ==
    IF k = 0 THEN ROne
    ELSE RMul(CauseProb(row, state, k - 1),
              IF state[k] = 1 THEN row[k] ELSE RSub(ROne, row[k]))

\* np.mean(tpm, axis=0)
unconstrained(tpm, n) ==
    List([i \in 1..n |->
            RDivInt(RSum(List([r \in 1..Len(tpm) |-> tpm[r][i]])), Len(tpm))])

\* the variant that sums the differences with their signs
signed_difference(effect_dist, mean, n) ==
    After(<<mean>>,
          RSum(List([i \in 1..n |-> RSub(effect_dist[i], mean[i])])))
\* float(np.sum(np.abs(effect_dist - unconstrained)))
abs_difference(effect_dist, mean, n) ==
    After(<<mean>>,
          RSum(List([i \in 1..n |-> RAbs(RSub(effect_dist[i], mean[i]))])))

effect_distance(tpm, state, n) ==
    abs_difference(tpm[RowIndex(state, n) + 1], unconstrained(tpm, n), n)

\* cause_dist as the loop over past_idx leaves it
cause_products(tpm, state, n) ==
    List([p \in 1..Pow2(n) |-> CauseProb(tpm[p], state, n)])

\* the variant that takes every row as equally likely when c_sum is 0
cause_dist_uniform_at_zero(products) ==
    IF RPos(RSum(products)) THEN DividedBy(products, RSum(products))
    ELSE List([p \in 1..Len(products) |-> <<1, Len(products)>>])
\* c_sum = cause_dist.sum(); if c_sum > 0: cause_dist /= c_sum
cause_dist(products) == After(<<products>>, DividedBy(products, RSum(products)))

cause_distance(tpm, state, n) ==
    emd_simple(cause_dist(cause_products(tpm, state, n)),
               \* np.ones(n_states) / n_states
               List([p \in 1..Pow2(n) |-> <<1, Pow2(n)>>]))

\* return cause_distance + effect_distance
distance_sum(effect, cause) == After(<<effect, cause>>, RAdd(cause, effect))

distribution_distance(tpm, state, n) ==
    After(<<tpm, state>>,
          distance_sum(effect_distance(tpm, state, n),
                       cause_distance(tpm, state, n)))

(***************************************************************************)
(* ORIONPhiComputer._partitioned_tpm                                       *)
(***************************************************************************)
RECURSIVE SortedSeq(_)
\* the elements of a finite set of integers in increasing order
SortedSeq(S) ==
    IF S = {} THEN <<>>
    ELSE LET m == CHOOSE x \in S : \A y \in S : x <= y
         IN  <<m>> \o SortedSeq(S \ {m})

\* format(x, f'0{n}b'): the n binary digits of x, most significant first
\* (at least one digit: format(0, '00b') is '0')
FormatBin(x, n) ==
    LET width == IF n = 0 THEN 1 ELSE n
    IN  List([k \in 1..width |-> Bit(x, width - k)])

\* seq[::-1]
Reversed(seq) == List([k \in 1..Len(seq) |-> seq[Len(seq) + 1 - k]])

\* [s for s in range(n) if cm[s][target] > 0]
Sources(cm, n, target) == {s \in 0..(n - 1) : cm[s + 1][target + 1] > 0}

\* the sources of target that lie on the other side of the partition
CrossSources(cm, n, part_a, target) ==
    {s \in Sources(cm, n, target) : (s \in part_a) # (target \in part_a)}

\* the variant that leaves the cross sources' bits as the row has them
row_state_kept(row_state, cross_sources, combo_idx) == row_state
\* row_state with the cross sources' bits set from the bits of combo_idx
TestState(row_state, cross_sources, combo_idx) ==
    List([k \in 1..Len(row_state) |->
        IF \E ci \in 1..Len(cross_sources) : cross_sources[ci] = k - 1
        THEN LET ci == CHOOSE c \in 1..Len(cross_sources) :
                           cross_sources[c] = k - 1
             IN  Bit(combo_idx, ci - 1)
        ELSE row_state[k]])

\* the variant that leaves partial_sum undivided
partial_sum_kept(tpm, n, row_state, cross_sources, target) ==
    RSum(List([c \in 1..Pow2(Len(cross_sources)) |->
            tpm[RowIndex(TestState(row_state, cross_sources, c - 1), n)
                + 1][target + 1]]))
\* partial_sum / n_cross_combos
partial_mean(tpm, n, row_state, cross_sources, target) ==
    After(<<row_state, cross_sources>>,
          RDivInt(RSum(List([c \in 1..Pow2(Len(cross_sources)) |->
                    tpm[RowIndex(TestState(row_state, cross_sources, c - 1), n)
                        + 1][target + 1]])),
                  Pow2(Len(cross_sources))))

\* the variant that puts 0.5 in every entry of the cut table
noise_everywhere(tpm, cm, n, part_a, row_idx, target) == <<1, 2>>
\* the variant without the else branch: the mean over the cross sources'
\* bits whether or not there is a source on the target's side
mean_without_same_sources(tpm, cm, n, part_a, row_idx, target) ==
    IF CrossSources(cm, n, part_a, target) = {}
    THEN tpm[row_idx + 1][target + 1]
    ELSE partial_mean(tpm, n, Reversed(FormatBin(row_idx, n)),
                      SortedSeq(CrossSources(cm, n, part_a, target)), target)
\* the entry of the cut table at (row_idx, target)
CutEntry(tpm, cm, n, part_a, row_idx, target) ==
    IF CrossSources(cm, n, part_a, target) = {}
    THEN tpm[row_idx + 1][target + 1]
    ELSE IF Sources(cm, n, target) \ CrossSources(cm, n, part_a, target) # {}
    THEN partial_mean(tpm, n, Reversed(FormatBin(row_idx, n)),
                      SortedSeq(CrossSources(cm, n, part_a, target)), target)
    ELSE <<1, 2>>

partitioned_tpm(tpm, cm, part_a, part_b) ==
    LET n == Len(tpm[1])
        n_states == Pow2(n)
    IN  List([r \in 1..Len(tpm) |->
            IF r <= n_states
            THEN List([t \in 1..n |->
                         CutEntry(tpm, cm, n, part_a, r - 1, t - 1)])
            ELSE tpm[r]])

\* The caller's table after _partitioned_tpm has written the cut table:
\* cut_tpm is np.copy(tpm), a fresh array, so the writes do not reach tpm.
tpm_written_in_place(tpm, cut_tpm) == cut_tpm
tpm_after_cut(tpm, cut_tpm) == tpm

(***************************************************************************)
(* ORIONPhiComputer._find_mip                                              *)
(***************************************************************************)
RECURSIVE Combinations(_, _, _)
\* itertools.combinations(range(lo, n), r): the increasing r-tuples, in
\* lexicographic order
Combinations(lo, n, r) ==
    IF r = 0 THEN << <<>> >>
    ELSE IF lo > n - r THEN <<>>
    ELSE LET with_lo == Combinations(lo + 1, n, r - 1)
         IN  [k \in 1..Len(with_lo) |-> <<lo>> \o with_lo[k]]
             \o Combinations(lo + 1, n, r)

SeqRange(seq) == {seq[k] : k \in 1..Len(seq)}

RECURSIVE splits_once(_, _)
\* the variant of the loops that visits each split of the nodes once: only
\* the part_a that hold node 0
splits_once(n, upto) ==
    IF upto < 1 THEN <<>>
    ELSE LET combos == SelectSeq(Combinations(0, n, upto),
                                 LAMBDA c : c[1] = 0)
         IN  splits_once(n, upto - 1)
             \o [k \in 1..Len(combos) |->
                    LET part_a == SeqRange(combos[k])
                    IN  [a |-> part_a, b |-> (0..(n - 1)) \ part_a]]

RECURSIVE splits_largest_first(_, _)
\* the variant of the loops that takes the larger part_a first:
\* for r in range(upto, 0, -1)
splits_largest_first(n, upto) ==
    IF upto < 1 THEN <<>>
    ELSE LET combos == Combinations(0, n, upto)
         IN  [k \in 1..Len(combos) |->
                    LET part_a == SeqRange(combos[k])
                    IN  [a |-> part_a, b |-> (0..(n - 1)) \ part_a]]
             \o splits_largest_first(n, upto - 1)

RECURSIVE Bipartitions(_, _)
\* the pairs (part_a, part_b) in the order the two nested loops visit them:
\* for r in range(1, upto + 1): for part_a in combinations(range(n), r)
Bipartitions(n, upto) ==
    IF upto < 1 THEN <<>>
    ELSE LET combos == Combinations(0, n, upto)
         IN  Bipartitions(n, upto - 1)
             \o [k \in 1..Len(combos) |->
                    LET part_a == SeqRange(combos[k])
                    IN  [a |-> part_a, b |-> (0..(n - 1)) \ part_a]]

\* the variant that takes every split to have an edge across it
always_connected(cm, part_a, part_b) == TRUE
has_cross_connection(cm, part_a, part_b) ==
    \E a_node \in part_a : \E b_node \in part_b :
        cm[a_node + 1][b_node + 1] > 0 \/ cm[b_node + 1][a_node + 1] > 0

NoCut == <<>>

\* the variant that leaves side B out of the cut
cut_of_side_a(part) == <<SortedSeq(part.a), <<>> >>
\* best_cut = (sorted(part_a), sorted(list(part_b)))
CutOf(part) == <<SortedSeq(part.a), SortedSeq(part.b)>>

\* phi_partition < min_phi, with min_phi starting at float('inf'); the
\* variant keeps the first score whatever follows
first_score_kept(phi_partition, acc) == acc.inf
\* the variant with phi_partition <= min_phi, which keeps the last of equal
\* scores
last_score_kept(phi_partition, acc) ==
    acc.inf \/ ~RLess(acc.min_phi, phi_partition)
ImprovesOn(phi_partition, acc) == acc.inf \/ RLess(phi_partition, acc.min_phi)

\* one pass of the loop body: the score of the split part
\* cut_dist = self._distribution_distance(cut_tpm, state, n_nodes)
cut_distance(cut_tpm, state, n_nodes) ==
    After(<<cut_tpm>>, distribution_distance(cut_tpm, state, n_nodes))

\* abs(whole_dist - cut_dist)
abs_loss(whole_dist, cut_dist) ==
    After(<<cut_dist>>, RAbs(RSub(whole_dist, cut_dist)))

phi_partition(tpm, cm, state, n_nodes, whole_dist, part) ==
    IF ~has_cross_connection(cm, part.a, part.b) THEN RZero
    ELSE abs_loss(whole_dist,
                  cut_distance(partitioned_tpm(tpm, cm, part.a, part.b),
                               state, n_nodes))

RECURSIVE tpm_before(_, _, _, _)
\* the caller's table when the loop reaches the k-th bipartition of parts
tpm_before(tpm, cm, parts, k) ==
    IF k = 1 THEN tpm
    ELSE LET prev == tpm_before(tpm, cm, parts, k - 1)
             part == parts[k - 1]
         IN  IF has_cross_connection(cm, part.a, part.b)
             THEN tpm_after_cut(prev,
                                partitioned_tpm(prev, cm, part.a, part.b))
             ELSE prev

RECURSIVE mip_loop(_, _, _)
\* min_phi and best_cut after the first k bipartitions of parts, scores[j]
\* being the j-th phi_partition
mip_loop(scores, parts, k) ==
    IF k = 0
    THEN [inf |-> TRUE, min_phi |-> RZero, best_cut |-> NoCut]
    ELSE LET acc == mip_loop(scores, parts, k - 1)
             better == ImprovesOn(scores[k], acc)
         IN  [inf |-> acc.inf /\ ~better,
              min_phi |-> IF better THEN scores[k] ELSE acc.min_phi,
              best_cut |-> IF better THEN CutOf(parts[k]) ELSE acc.best_cut]

\* the rows of the caller's table that differ once the loop has ended, as
\* pairs <<row, new row>>
rows_written(tpm, after) ==
    LET changed == SelectSeq(List([r \in 1..Len(tpm) |-> r]),
                             LAMBDA r : after[r] # tpm[r])
    IN  List([k \in 1..Len(changed) |-> <<changed[k], after[changed[k]]>>])

\* if n_nodes <= 1: return 0.0, None; the variant returns the whole system
\* as a one-sided cut
whole_as_cut(n_nodes) ==
    [phi |-> RZero,
     best_cut |-> <<List([i \in 1..n_nodes |-> i - 1]), <<>> >>,
     writes |-> <<>>, scores |-> <<>>, min_phi |-> RZero, cut_tables |-> 0]
early_return(n_nodes) ==
    [phi |-> RZero, best_cut |-> NoCut, writes |-> <<>>,
     scores |-> <<>>, min_phi |-> RZero, cut_tables |-> 0]

\* phi = min_phi if min_phi != float('inf') else 0.0
phi_of(end) == IF end.inf THEN RZero ELSE end.min_phi

\* return round(phi, 6), best_cut
mip_returned(tpm, cm, parts, scores, end) ==
    After(<<end>>,
          [phi |-> round6(phi_of(end)), best_cut |-> end.best_cut,
           writes |-> rows_written(tpm,
                                   tpm_before(tpm, cm, parts, Len(parts) + 1)),
           scores |-> scores, min_phi |-> phi_of(end),
           \* the number of calls of _partitioned_tpm
           cut_tables |->
               Cardinality({k \in 1..Len(parts) :
                   has_cross_connection(cm, parts[k].a, parts[k].b)})])

\* the loops, the bipartitions scored
mip_of_scores(tpm, cm, parts, scores) ==
    After(<<scores>>,
          mip_returned(tpm, cm, parts, scores,
                       mip_loop(scores, parts, Len(parts))))

\* the phi_partition of each bipartition of parts, in order
partition_scores(tpm, cm, state, n_nodes, whole_dist, parts) ==
    After(<<whole_dist, parts>>,
          List([k \in 1..Len(parts) |->
                  phi_partition(tpm_before(tpm, cm, parts, k), cm,
                                state, n_nodes, whole_dist, parts[k])]))

mip_over(tpm, cm, state, n_nodes, parts) ==
    mip_of_scores(tpm, cm, parts,
                  partition_scores(tpm, cm, state, n_nodes,
                      distribution_distance(tpm, state, n_nodes), parts))

\* [phi, best_cut] as returned, with the scores of the bipartitions in the
\* order evaluated, the unrounded minimum and the rows of the caller's table
\* that the call wrote
find_mip(tpm, cm, state, n_nodes) ==
    IF n_nodes <= 1
    THEN early_return(n_nodes)
    ELSE mip_over(tpm, cm, state, n_nodes,
                  Bipartitions(n_nodes, n_nodes - 1))

\* the try block of _compute_phi_for_network raises IndexError: state[i]
\* with i past the end of state, or tpm[r] with r past the last row
find_mip_raises(tpm, state, n_nodes) ==
    n_nodes > 1 /\ (Len(state) < n_nodes \/ Len(tpm) < Pow2(n_nodes))

(***************************************************************************)
(* ORIONPhiComputer._make_network and the builders' tables                 *)
(***************************************************************************)
\* np.array(rows, dtype=float) raises ValueError when the rows differ in
\* length
ragged(rows) == \E r \in 1..Len(rows) : Len(rows[r]) # Len(rows[1])
make_network_raises(tpm, cm, labels) == ragged(tpm) \/ ragged(cm)

\* {"tpm": np.array(tpm, dtype=float), "cm": ..., "labels": list(labels)}:
\* no check of tpm's shape against cm or labels is made (cm, of which only
\* the sign of an entry is read, keeps its integers)
make_network(tpm, cm, labels) ==
    [tpm |-> List([r \in 1..Len(tpm) |->
                List([i \in 1..Len(tpm[r]) |-> Rat(tpm[r][i], 1)])]),
     cm |-> cm, labels |-> labels]

global_workspace_network ==
    make_network(
        <<<<0, 0, 0, 0>>, <<0, 1, 0, 0>>, <<1, 0, 0, 0>>,
          <<1, 1, 0, 1>>, <<0, 0, 1, 0>>, <<0, 1, 1, 0>>,
          <<1, 0, 1, 0>>, <<1, 1, 1, 1>>, <<0, 0, 0, 1>>,
          <<0, 1, 0, 1>>, <<1, 1, 0, 1>>, <<1, 1, 1, 1>>,
          <<0, 0, 1, 1>>, <<0, 1, 1, 1>>, <<1, 1, 1, 1>>,
          <<1, 1, 1, 1>>>>,
        <<<<0, 1, 0, 0>>, <<0, 0, 1, 1>>, <<0, 1, 0, 0>>,
          <<1, 0, 0, 0>>>>,
        <<"Perception", "Workspace", "Memory", "Executive">>)

recurrence_network ==
    make_network(
        <<<<0, 0, 0>>, <<0, 1, 0>>, <<1, 0, 0>>, <<1, 1, 1>>,
          <<0, 1, 1>>, <<1, 1, 1>>, <<1, 1, 1>>, <<1, 1, 1>>>>,
        <<<<0, 1, 1>>, <<1, 0, 1>>, <<1, 1, 0>>>>,
        <<"Feedforward", "Recurrent", "Integration">>)

higher_order_network ==
    make_network(
        <<<<0, 0, 0>>, <<0, 1, 1>>, <<1, 0, 0>>, <<1, 1, 1>>,
          <<0, 0, 1>>, <<0, 1, 1>>, <<1, 1, 1>>, <<1, 1, 1>>>>,
        <<<<0, 1, 1>>, <<1, 0, 1>>, <<0, 1, 0>>>>,
        <<"FirstOrder", "MetaCognition", "SelfModel">>)

attention_schema_network ==
    make_network(
        <<<<0, 0, 0>>, <<1, 1, 0>>, <<0, 0, 1>>, <<1, 1, 1>>,
          <<0, 1, 0>>, <<1, 1, 1>>, <<0, 1, 1>>, <<1, 1, 1>>>>,
        <<<<0, 1, 0>>, <<1, 0, 1>>, <<1, 0, 0>>>>,
        <<"Attention", "Schema", "Control">>)

\* the variant of xor_2 that has the table of or_2
xor_2_with_or_table ==
    make_network(
        <<<<0, 0>>, <<1, 1>>, <<1, 1>>, <<1, 1>>>>,
        <<<<1, 1>>, <<1, 1>>>>,
        <<"A_xor", "B_xor">>)
xor_2_network ==
    make_network(
        <<<<0, 0>>, <<1, 1>>, <<1, 1>>, <<0, 0>>>>,
        <<<<1, 1>>, <<1, 1>>>>,
        <<"A_xor", "B_xor">>)

and_2_network ==
    make_network(
        <<<<0, 0>>, <<0, 0>>, <<0, 0>>, <<1, 1>>>>,
        <<<<1, 1>>, <<1, 1>>>>,
        <<"A_and", "B_and">>)

or_2_network ==
    make_network(
        <<<<0, 0>>, <<1, 1>>, <<1, 1>>, <<1, 1>>>>,
        <<<<1, 1>>, <<1, 1>>>>,
        <<"A_or", "B_or">>)

\* the variant of majority_3 in which no node is connected to another
majority_3_disconnected ==
    make_network(
        <<<<0, 0, 0>>, <<0, 0, 0>>, <<0, 0, 0>>, <<1, 1, 1>>,
          <<0, 0, 0>>, <<1, 1, 1>>, <<1, 1, 1>>, <<1, 1, 1>>>>,
        <<<<0, 0, 0>>, <<0, 0, 0>>, <<0, 0, 0>>>>,
        <<"Voter_A", "Voter_B", "Voter_C">>)
majority_3_network ==
    make_network(
        <<<<0, 0, 0>>, <<0, 0, 0>>, <<0, 0, 0>>, <<1, 1, 1>>,
          <<0, 0, 0>>, <<1, 1, 1>>, <<1, 1, 1>>, <<1, 1, 1>>>>,
        <<<<1, 1, 1>>, <<1, 1, 1>>, <<1, 1, 1>>>>,
        <<"V1", "V2", "V3">>)

feedforward_chain_network ==
    make_network(
        <<<<0, 0, 0>>, <<1, 1, 0>>, <<0, 0, 1>>, <<1, 1, 1>>,
          <<0, 0, 0>>, <<1, 1, 0>>, <<0, 0, 1>>, <<1, 1, 1>>>>,
        <<<<1, 1, 0>>, <<0, 0, 1>>, <<0, 0, 0>>>>,
        <<"FF_A", "FF_B", "FF_C">>)

\* the variant of recurrent_loop that is the chain, without the feedback
recurrent_loop_without_feedback == feedforward_chain_network
recurrent_loop_network ==
    make_network(
        <<<<0, 0, 0>>, <<0, 1, 0>>, <<0, 0, 1>>, <<0, 1, 1>>,
          <<1, 0, 0>>, <<1, 1, 0>>, <<1, 0, 1>>, <<1, 1, 1>>>>,
        <<<<0, 1, 0>>, <<0, 0, 1>>, <<1, 0, 0>>>>,
        <<"Loop_A", "Loop_B", "Loop_C">>)

(***************************************************************************)
(* Network names and result keys                                           *)
(*                                                                         *)
(* A name is the sequence of the pieces of its text: the piece "_ground",  *)
(* the piece "_s", the digits "0" and "1", and pieces of other text that   *)
(* neither contain "_ground" or "_s" nor form them with their neighbours.  *)
(***************************************************************************)
Ground == "_ground"
StateMark == "_s"

attention_schema == <<"attention", StateMark, "chema">>

\* network_name.replace("_ground", "")
replace_ground(network_name) ==
    SelectSeq(network_name, LAMBDA piece : piece # Ground)

\* the piece at which base_name.rfind("_s") finds "_s", 0 when it finds none
rfind_s(base_name) ==
    LET found == {i \in 1..Len(base_name) : base_name[i] = StateMark}
    IN  IF found = {} THEN 0
        ELSE CHOOSE i \in found : \A j \in found : j <= i

\* idx > 0 and all(c in '01' for c in base_name[idx+2:])
has_state_suffix(base_name) ==
    LET idx == rfind_s(base_name)
    IN  /\ idx > 1
        /\ \A j \in (idx + 1)..Len(base_name) : base_name[j] \in {"0", "1"}

\* the name compute_phi falls back to
base_name_of(network_name) ==
    LET base_name == replace_ground(network_name)
    IN  IF has_state_suffix(base_name)
        THEN SubSeq(base_name, 1, rfind_s(base_name) - 1)
        ELSE base_name

\* f"{name}_s{''.join(str(x) for x in s)}"
state_key(name, s) ==
    name \o <<StateMark>>
         \o List([k \in 1..Len(s) |-> IF s[k] = 0 THEN "0" ELSE "1"])

\* name + "_ground"
ground_key(name) == name \o <<Ground>>

(***************************************************************************)
(* Dictionaries (self.networks, self.results) and optional arguments       *)
(***************************************************************************)
EmptyDict == [k \in {} |-> k]
Put(d, k, v) == [x \in DOMAIN d \cup {k} |-> IF x = k THEN v ELSE d[x]]

\* state=None, and a state that is given
NoState == [given |-> FALSE, value |-> <<>>]
Given(state) == [given |-> TRUE, value |-> state]

(***************************************************************************)
(* ORIONPhiComputer._compute_phi_for_network                               *)
(***************************************************************************)
IndexError == <<"IndexError">>

\* the result dict of the try block (elapsed time and timestamp left out)
result_of(network_name, state, phi_value, mip_cut, labels) ==
    [network |-> network_name, state |-> state, phi |-> round6(phi_value),
     mip_cut |-> mip_cut, node_labels |-> labels,
     method |-> "Phi-proxy (partition-based integration heuristic, inspired by IIT 3.0)"]

error_result_without_diagnostic(network_name, state, e) ==
    [network |-> network_name, state |-> state, phi |-> RZero,
     method |-> "Phi-proxy (partition-based integration heuristic)"]

\* the result dict of the except block
error_result(network_name, state, e) ==
    [network |-> network_name, state |-> state, phi |-> RZero,
     error |-> e, traceback |-> e,
     method |-> "Phi-proxy (partition-based integration heuristic)"]

\* {"error": f"Network '{network_name}' not found", "phi": 0.0}
not_found(network_name) ==
    [error |-> <<"Network", network_name, "not found">>, phi |-> RZero]

is_error(r) == "error" \in DOMAIN r

\* what one run of _find_mip did: NoRun when it was not reached or raised
NoRun == [ran |-> FALSE]

(***************************************************************************)
(* Networks declared from outside the class, the way CanonicalTestSuite's *)
(* builders declare theirs:                                                *)
(*     network = phi_computer._make_network(tpm, cm, labels)               *)
(*     phi_computer.networks[name] = network                               *)
(***************************************************************************)
\* two nodes and five rows
tall_declaration ==
    [name |-> <<"tall">>,
     tpm |-> <<<<0, 0>>, <<1, 1>>, <<1, 1>>, <<0, 0>>, <<1, 0>>>>,
     cm |-> <<<<1, 1>>, <<1, 1>>>>, labels |-> <<"A", "B">>]

\* three nodes: two that copy each other and a third that is always off,
\* with no edge to it or from it
apart_declaration ==
    [name |-> <<"apart">>,
     tpm |-> <<<<0, 0, 0>>, <<0, 1, 0>>, <<1, 0, 0>>, <<1, 1, 0>>,
               <<0, 0, 0>>, <<0, 1, 0>>, <<1, 0, 0>>, <<1, 1, 0>>>>,
     cm |-> <<<<0, 1, 0>>, <<1, 0, 0>>, <<0, 0, 0>>>>,
     labels |-> <<"A", "B", "C">>]

UserDeclarations ==
    {tall_declaration, apart_declaration,
     \* one node
     [name |-> <<"unit">>, tpm |-> <<<<0>>, <<1>>>>, cm |-> <<<<1>>>>,
      labels |-> <<"U">>],
     \* no node: a table of one empty row
     [name |-> <<"empty">>, tpm |-> << <<>> >>, cm |-> <<>>, labels |-> <<>>],
     \* two nodes and three rows
     [name |-> <<"short">>, tpm |-> <<<<0, 0>>, <<1, 1>>, <<1, 1>>>>,
      cm |-> <<<<1, 1>>, <<1, 1>>>>, labels |-> <<"A", "B">>],
     \* rows of two lengths
     [name |-> <<"ragged">>, tpm |-> <<<<0, 0>>, <<1>>, <<1, 1>>, <<0, 0>>>>,
      cm |-> <<<<1, 1>>, <<1, 1>>>>, labels |-> <<"A", "B">>]}

\* the networks whose runs of _find_mip are worked out once
TabulatedNetworks ==
    <<global_workspace_network, recurrence_network, higher_order_network,
      attention_schema_network, xor_2_network, and_2_network, or_2_network,
      majority_3_network, feedforward_chain_network, recurrent_loop_network,
      make_network(tall_declaration.tpm, tall_declaration.cm,
                   tall_declaration.labels),
      make_network(apart_declaration.tpm, apart_declaration.cm,
                   apart_declaration.labels)>>

\* _find_mip on each tabulated network at each of its states
find_mip_table ==
    List([b \in 1..Len(TabulatedNetworks) |->
        LET net == TabulatedNetworks[b]
            n == Len(net.tpm[1])
        IN  List([i \in 1..Pow2(n) |->
                find_mip(net.tpm, net.cm, Reversed(FormatBin(i - 1, n)), n)])])

\* the table once the rows in writes have been written
apply_writes(tpm, writes) ==
    IF Len(writes) = 0 THEN tpm
    ELSE List([r \in 1..Len(tpm) |->
            IF \E w \in 1..Len(writes) : writes[w][1] = r
            THEN writes[CHOOSE w \in 1..Len(writes) : writes[w][1] = r][2]
            ELSE tpm[r]])

\* phi_value, mip_cut = self._find_mip(tpm, cm, state, n_nodes), looked up
\* in `known` (find_mip_table worked out before) when the run is one of its
\* runs
find_mip_run(known, tpm, cm, state, n_nodes) ==
    LET same == {b \in 1..Len(TabulatedNetworks) :
                    /\ TabulatedNetworks[b].tpm = tpm
                    /\ TabulatedNetworks[b].cm = cm
                    /\ Len(state) = n_nodes}
    IN  IF same # {}
        THEN known[CHOOSE b \in same : TRUE][RowIndex(state, n_nodes) + 1]
        ELSE find_mip(tpm, cm, state, n_nodes)

\* if state is None: state = tuple([1] * n_nodes)
state_or_ones(state, n_nodes) ==
    IF state.given THEN state.value ELSE List([i \in 1..n_nodes |-> 1])

\* the try block once _find_mip has returned mip
computed(network_name, network, st, mip) ==
    After(<<mip>>,
          [result |-> result_of(network_name, st, mip.phi, mip.best_cut,
                                network.labels),
           writes |-> mip.writes,
           run |-> [ran |-> TRUE, tpm |-> network.tpm, cm |-> network.cm,
                    state |-> st, n_nodes |-> Len(network.tpm[1]),
                    phi |-> mip.phi, best_cut |-> mip.best_cut,
                    scores |-> mip.scores, min_phi |-> mip.min_phi,
                    cut_tables |-> mip.cut_tables]])

\* the try block and the except block, for the state st
tried(known, network_name, network, st) ==
    IF find_mip_raises(network.tpm, st, Len(network.tpm[1]))
    THEN [result |-> error_result(network_name, st, IndexError),
          writes |-> <<>>, run |-> NoRun]
    ELSE computed(network_name, network, st,
                  find_mip_run(known, network.tpm, network.cm, st,
                               Len(network.tpm[1])))

\* [result, writes, run]: the dict returned and stored in self.results, the
\* rows of network["tpm"] written, and what _find_mip did
compute_phi_for_network(known, network_name, network, state) ==
    tried(known, network_name, network,
          state_or_ones(state, Len(network.tpm[1])))

(***************************************************************************)
(* The engine: self.networks and self.results, with what the calls made so *)
(* far returned (out), the last run of _find_mip (run) and every           *)
(* <<network, state, phi, cut>> computed since the network was declared    *)
(* (seen).                                                                 *)
(***************************************************************************)
\* self.networks.get(network_name), and with mangling compute_phi's second
\* self.networks.get(base_name): the name found, if any; the variant has
\* compute_phi_direct fall back on the base name as compute_phi does
lookup_by_base(nets, network_name, mangling) ==
    IF network_name \in DOMAIN nets THEN <<network_name>>
    ELSE IF base_name_of(network_name) \in DOMAIN nets
    THEN <<base_name_of(network_name)>>
    ELSE <<>>
lookup(nets, network_name, mangling) ==
    IF network_name \in DOMAIN nets THEN <<network_name>>
    ELSE IF mangling /\ base_name_of(network_name) \in DOMAIN nets
    THEN <<base_name_of(network_name)>>
    ELSE <<>>

\* a call: compute_phi (mangling) or compute_phi_direct and
\* _compute_phi_for_network (not mangling), and whether the caller then
\* stores what it returned under the key (self.results[key] = r)
PhiCall(network_name, state, mangling, stored) ==
    [network_name |-> network_name, state |-> state, mangling |-> mangling,
     stored |-> stored]

cut_of(r) == IF "mip_cut" \in DOMAIN r THEN r.mip_cut ELSE NoCut

\* the engine once _compute_phi_for_network has returned p for the network
\* declared as name
after_compute(e, c, name, p) ==
    After(<<p>>,
          [e EXCEPT
             !.networks =
                 IF Len(p.writes) = 0 THEN @
                 ELSE Put(@, name,
                          [@[name] EXCEPT !.tpm = apply_writes(@, p.writes)]),
             !.results = Put(@, c.network_name, p.result),
             !.seen = @ \cup {<<name, p.result.state, p.result.phi,
                                cut_of(p.result)>>},
             !.run = p.run,
             !.out = Append(@, p.result)])

\* the engine once the lookups have found the name in found, or none
after_lookup(e, c, found) ==
    IF Len(found) = 0
    THEN [e EXCEPT !.out = Append(@, not_found(c.network_name)),
                   !.run = NoRun,
                   !.results = IF c.stored
                               THEN Put(@, c.network_name,
                                        not_found(c.network_name))
                               ELSE @]
    ELSE after_compute(e, c, found[1],
                       compute_phi_for_network(e.known, c.network_name,
                                               e.networks[found[1]], c.state))

\* the engine after one call
after_call(e, c) ==
    after_lookup(e, c, lookup(e.networks, c.network_name, c.mangling))

RECURSIVE after_calls(_, _, _, _)
\* the engine after calls[lo..hi], made in that order
after_calls(e, calls, lo, hi) ==
    IF lo > hi THEN e
    ELSE IF lo = hi THEN after_call(e, calls[lo])
    ELSE LET half == after_calls(e, calls, lo, (lo + hi) \div 2)
         IN  After(<<half.out>>,
                   after_calls(half, calls, (lo + hi) \div 2 + 1, hi))

\* self.networks[name] = network: the network is the definition the name
\* was built with from now on, and what was computed for another definition
\* is forgotten
declared(e, name, network) ==
    [e EXCEPT !.networks = Put(@, name, network),
              !.built = Put(@, name, network),
              !.seen = IF name \in DOMAIN e.built /\ e.built[name] = network
                       THEN @ ELSE {t \in @ : t[1] # name}]

RECURSIVE declared_all(_, _, _)
\* the engine after the first k of the builders have run
declared_all(e, builders, k) ==
    IF k = 0 THEN e
    ELSE declared(declared_all(e, builders, k - 1),
                  builders[k].name, builders[k].network)

\* the build_* methods of ORIONPhiComputer, in the order
\* compute_all_subsystems calls them
OrionBuilders ==
    <<[name |-> <<"global_workspace">>, network |-> global_workspace_network],
      [name |-> <<"recurrence">>, network |-> recurrence_network],
      [name |-> <<"higher_order">>, network |-> higher_order_network],
      [name |-> attention_schema, network |-> attention_schema_network]>>

\* the build_* methods of CanonicalTestSuite, in the order run_all_tests
\* calls them (and of its test_configs)
CanonicalBuilders ==
    <<[name |-> <<"xor_2">>, network |-> xor_2_network],
      [name |-> <<"and_2">>, network |-> and_2_network],
      [name |-> <<"or_2">>, network |-> or_2_network],
      [name |-> <<"majority_3">>, network |-> majority_3_network],
      [name |-> <<"feedforward_chain">>,
       network |-> feedforward_chain_network],
      [name |-> <<"recurrent_loop">>, network |-> recurrent_loop_network]>>

RECURSIVE SeqOf(_)
\* the elements of a finite set, one after the other
SeqOf(S) ==
    IF S = {} THEN <<>>
    ELSE LET x == CHOOSE y \in S : TRUE IN <<x>> \o SeqOf(S \ {x})

RECURSIVE Flat(_, _)
\* the concatenation of the first k sequences of seqs
Flat(seqs, k) == IF k = 0 THEN <<>> ELSE Flat(seqs, k - 1) \o seqs[k]

\* statistics of a non-empty list of phi values
phi_max(vals) ==
    vals[CHOOSE i \in 1..Len(vals) :
            \A j \in 1..Len(vals) : ~RLess(vals[i], vals[j])]
phi_min(vals) ==
    vals[CHOOSE i \in 1..Len(vals) :
            \A j \in 1..Len(vals) : ~RLess(vals[j], vals[i])]
phi_mean(vals) == RDivInt(RSum(vals), Len(vals))

(***************************************************************************)
(* ORIONPhiComputer.compute_all_subsystems                                 *)
(***************************************************************************)
\* min(2**n, 8)
SweepLimit == 8

Ones(n) == List([i \in 1..n |-> 1])

\* the calls the three loops over self.networks make for one name, each with
\* the loop it belongs to
subsystem_calls(nets, name) ==
    LET n == Len(nets[name].tpm[1])
        n_tested == IF Pow2(n) < SweepLimit THEN Pow2(n) ELSE SweepLimit
    IN  [active |-> <<[name |-> name, loop |-> "active",
                       call |-> PhiCall(name, Given(Ones(n)), TRUE, FALSE)]>>,
         ground |-> <<[name |-> name, loop |-> "ground",
                       call |-> PhiCall(ground_key(name),
                                        Given(List([i \in 1..n |-> 0])),
                                        TRUE, TRUE)]>>,
         multi |-> List([i \in 1..n_tested |->
                    LET bits == FormatBin(i - 1, n)
                    IN  [name |-> name, loop |-> "multi",
                         call |-> PhiCall(state_key(name, bits), Given(bits),
                                          TRUE, TRUE)]])]

\* the calls of the three loops, loop after loop, names being the names the
\* loops go through
subsystem_plan(nets, names) ==
    Flat(List([k \in 1..Len(names) |->
                 subsystem_calls(nets, names[k]).active]), Len(names))
    \o Flat(List([k \in 1..Len(names) |->
                    subsystem_calls(nets, names[k]).ground]), Len(names))
    \o Flat(List([k \in 1..Len(names) |->
                    subsystem_calls(nets, names[k]).multi]), Len(names))

\* what the calls of one loop for one name returned, out being what the
\* calls of plan returned
returned(plan, out, name, loop) ==
    LET at == SelectSeq(List([k \in 1..Len(plan) |-> k]),
                        LAMBDA k : plan[k].name = name /\ plan[k].loop = loop)
    IN  List([k \in 1..Len(at) |-> out[at[k]]])

\* phi_values: r["phi"] of the results without "error"
phi_values_of(multi) ==
    LET ok == SelectSeq(multi, LAMBDA r : ~is_error(r))
    IN  List([k \in 1..Len(ok) |-> ok[k].phi])

\* multi_state_results[name]
multi_state_entry(phi_values) ==
    [max_phi |-> phi_max(phi_values),
     min_phi |-> phi_min(phi_values),
     mean_phi |-> phi_mean(phi_values),
     states_tested |-> Len(phi_values)]

\* total_phi = sum(r.get("phi", 0) for r in all_ones_results.values())
total_phi(plan, out, names) ==
    RSum(List([k \in 1..Len(names) |->
                 returned(plan, out, names[k], "active")[1].phi]))

\* the summary dict
summary(plan, out, names) ==
    [networks_computed |-> Len(names),
     active_state_results |->
       [name \in SeqRange(names) |->
           [phi |-> returned(plan, out, name, "active")[1].phi]],
     ground_state_results |->
       [name \in SeqRange(names) |->
           [phi |-> returned(plan, out, name, "ground")[1].phi]],
     multi_state_analysis |->
       [name \in {x \in SeqRange(names) :
                     Len(phi_values_of(returned(plan, out, x, "multi"))) > 0}
          |-> multi_state_entry(
                  phi_values_of(returned(plan, out, name, "multi")))],
     total_phi_active |-> round6(total_phi(plan, out, names)),
     average_phi_active |->
       round6(IF Len(names) > 0
              THEN RDivInt(total_phi(plan, out, names), Len(names))
              ELSE RZero)]

\* the engine and the summary once the calls of plan have been made
subsystems_done(e1, plan, names) ==
    After(<<e1.out>>,
          [engine |-> e1, value |-> summary(plan, e1.out, names)])

\* the calls of plan made
subsystems_planned(e0, plan, names) ==
    After(<<plan>>,
          subsystems_done(
              after_calls([e0 EXCEPT !.out = <<>>],
                          List([k \in 1..Len(plan) |-> plan[k].call]),
                          1, Len(plan)),
              plan, names))

\* the three loops over the names
subsystems_named(e0, names) ==
    subsystems_planned(e0, subsystem_plan(e0.networks, names), names)

\* compute_all_subsystems once its builders have run
subsystems_of(e0) == subsystems_named(e0, SeqOf(DOMAIN e0.networks))

\* [engine, value]: the engine afterwards and the summary returned.  The
\* names are taken in an order of the model's choosing where the code takes
\* them in the order of their declaration: no call reads what a call for
\* another name wrote.
compute_all_subsystems(e) ==
    subsystems_of(declared_all(e, OrionBuilders, Len(OrionBuilders)))

(***************************************************************************)
(* CanonicalTestSuite.run_all_tests, on the suite's phi_computer           *)
(***************************************************************************)
\* tuple((state_idx >> i) & 1 for i in range(n_nodes))
StateOfIndex(state_idx, n_nodes) ==
    List([i \in 1..n_nodes |-> Bit(state_idx, i - 1)])

\* the calls of the loop over range(n_states) for one network
test_calls(nets, net_name) ==
    LET n_nodes == Len(nets[net_name].tpm[1])
    IN  List([i \in 1..Pow2(n_nodes) |->
            PhiCall(net_name, Given(StateOfIndex(i - 1, n_nodes)),
                    FALSE, FALSE)])

\* results[net_name], r being what the calls for the network returned
test_result(nets, net_name, r) ==
    LET n_nodes == Len(nets[net_name].tpm[1])
        state_results ==
            List([k \in 1..Len(r) |->
                    [state |-> StateOfIndex(k - 1, n_nodes),
                     phi |-> r[k].phi, mip_cut |-> cut_of(r[k])]])
        phi_values == List([k \in 1..Len(r) |-> state_results[k].phi])
    IN  [nodes |-> n_nodes,
         states_tested |-> Pow2(n_nodes),
         phi_all_active |-> state_results[Len(r)].phi,
         phi_max |-> phi_max(phi_values),
         phi_min |-> phi_min(phi_values),
         phi_mean |-> phi_mean(phi_values),
         all_states |-> state_results,
         mip_active |-> state_results[Len(r)].mip_cut]

\* the names of test_configs
TestNames ==
    List([k \in 1..Len(CanonicalBuilders) |-> CanonicalBuilders[k].name])

\* the calls of the loop over test_configs
test_plan(nets) ==
    Flat(List([k \in 1..Len(TestNames) |-> test_calls(nets, TestNames[k])]),
         Len(TestNames))

\* the number of calls made before those for the k-th of test_configs
calls_before(nets, k) ==
    Len(Flat(List([j \in 1..Len(TestNames) |->
                     test_calls(nets, TestNames[j])]), k - 1))

\* results, one entry for each of test_configs in order, out being what the
\* calls returned
test_results(nets, out) ==
    List([k \in 1..Len(TestNames) |->
        test_result(nets, TestNames[k],
                    SubSeq(out, calls_before(nets, k) + 1,
                           calls_before(nets, k + 1)))])

\* results[text]
result_named(results, text) ==
    results[CHOOSE k \in 1..Len(TestNames) : TestNames[k] = <<text>>]

\* the five validations
validations_of(results) ==
    <<[test |-> "XOR > AND",
       pass |-> RLess(result_named(results, "and_2").phi_max,
                      result_named(results, "xor_2").phi_max)],
      [test |-> "XOR > OR",
       pass |-> RLess(result_named(results, "or_2").phi_max,
                      result_named(results, "xor_2").phi_max)],
      [test |-> "Recurrent Loop > Feedforward Chain",
       pass |-> RLess(result_named(results, "feedforward_chain").phi_max,
                      result_named(results, "recurrent_loop").phi_max)],
      [test |-> "Recurrent Loop(active) >= Feedforward Chain(active)",
       pass |-> ~RLess(result_named(results, "recurrent_loop").phi_all_active,
                       result_named(results,
                                    "feedforward_chain").phi_all_active)],
      [test |-> "Majority-3 has non-zero Phi",
       pass |-> RPos(result_named(results, "majority_3").phi_max)]>>

\* the variant that counts every validation as passed
all_counted_as_passed(validations) == Len(validations)
\* passed = sum(1 for v in validations if v["pass"])
passed_of(validations) ==
    Cardinality({k \in 1..Len(validations) : validations[k].pass})

\* the report, its validations worked out
report_validated(results, validations) ==
    After(<<validations>>,
          [networks |-> [name \in SeqRange(TestNames) |->
                           results[CHOOSE k \in 1..Len(TestNames) :
                                      TestNames[k] = name]],
           validations |-> validations,
           passed |-> passed_of(validations),
           total |-> Len(validations),
           pass_rate |-> pyround(Rat(passed_of(validations) * 100,
                                     Len(validations)), 1)])

\* the report dict
report(results) ==
    After(<<results>>, report_validated(results, validations_of(results)))

\* the engine and the report once the calls have been made
tests_done(e1, nets) ==
    After(<<e1.out>>,
          [engine |-> e1, value |-> report(test_results(nets, e1.out))])

\* the loop over test_configs
tests_planned(e0, plan) ==
    After(<<plan>>,
          tests_done(after_calls([e0 EXCEPT !.out = <<>>], plan, 1, Len(plan)),
                     e0.networks))

\* run_all_tests once its builders have run
tests_of(e0) == tests_planned(e0, test_plan(e0.networks))

\* [engine, value]: the engine afterwards and the report returned
run_all_tests(e) ==
    tests_of(declared_all(e, CanonicalBuilders, Len(CanonicalBuilders)))

(***************************************************************************)
(* State                                                                   *)
(***************************************************************************)
VARIABLES
    networks,   \* self.networks: name -> network
    results,    \* self.results: key -> result dict
    built,      \* name -> the network the name was last declared with
    seen,       \* <<name, state, phi, cut>> of every computation made
    run,        \* what the last call's run of _find_mip did
    ret,        \* the last call and what it returned
    calls,      \* the number of calls made
    known,      \* find_mip_table, worked out once
    proof_file, \* PROOFS.jsonl
    state_file, \* ORION_EVO_STATE.json
    lock,       \* the process that holds the flock on PROOFS.jsonl.lock, or 0
    procs,      \* where each process is in its call, and its locals
    appended    \* every line appended to PROOFS.jsonl, in order

vars == <<networks, results, built, seen, run, ret, calls, known,
          proof_file, state_file, lock, procs, appended>>

\* the files of the proof ledger and the processes that write them
ledger_vars == <<proof_file, state_file, lock, procs, appended>>

\* the number of calls of a behaviour
MaxCalls == 3

Engine ==
    [networks |-> networks, results |-> results, built |-> built,
     seen |-> seen, run |-> run, known |-> known, out |-> <<>>]

Becomes(e) ==
    /\ networks' = e.networks
    /\ results' = e.results
    /\ built' = e.built
    /\ seen' = e.seen
    /\ run' = e.run
    /\ UNCHANGED known
    /\ UNCHANGED ledger_vars

Called == calls < MaxCalls /\ calls' = calls + 1

Init ==
    /\ networks = EmptyDict
    /\ results = EmptyDict
    /\ built = EmptyDict
    /\ seen = {}
    /\ run = NoRun
    /\ ret = [op |-> "init"]
    /\ calls = 0
    /\ known = find_mip_table
    /\ proof_file = [exists |-> FALSE, lines |-> <<>>]
    /\ state_file = [exists |-> FALSE, empty |-> FALSE, state |-> <<>>]
    /\ lock = 0
    /\ procs = [p \in {1, 2} |->
                  [pc |-> "idle", data |-> <<>>, prev_hash |-> <<>>,
                   new_hash |-> <<>>, state |-> <<>>]]
    /\ appended = <<>>

(***************************************************************************)
(* Calls                                                                   *)
(***************************************************************************)
\* the builders called on their own
BuildersCalled ==
    {OrionBuilders[2], OrionBuilders[4],
     CanonicalBuilders[1], CanonicalBuilders[2]}

\* the arguments compute_phi is called with
PhiInputs ==
    {[network_name |-> <<"xor_2">>, state |-> NoState],
     [network_name |-> <<"xor_2">>, state |-> Given(<<0, 1>>)],
     [network_name |-> <<"xor_2">>, state |-> Given(<<1, 1, 0>>)],
     [network_name |-> <<"xor_2">>, state |-> Given(<<1>>)],
     [network_name |-> <<"and_2">>, state |-> Given(<<0, 1>>)],
     [network_name |-> <<"xor_2", StateMark, "0", "1">>,
      state |-> Given(<<0, 1>>)],
     [network_name |-> <<"recurrence", Ground>>, state |-> NoState],
     [network_name |-> attention_schema, state |-> Given(<<1, 0, 1>>)],
     [network_name |-> <<"ghost">>, state |-> NoState],
     [network_name |-> <<"unit">>, state |-> NoState],
     [network_name |-> <<"unit">>, state |-> Given(<<1, 1, 0>>)],
     [network_name |-> <<"empty">>, state |-> NoState],
     [network_name |-> <<"short">>, state |-> Given(<<0, 0>>)],
     [network_name |-> <<"tall">>, state |-> Given(<<1, 0>>)],
     [network_name |-> <<"apart">>, state |-> Given(<<1, 0, 0>>)]}

\* the arguments compute_phi_direct is called with
DirectInputs ==
    {[network_name |-> <<"xor_2">>, state |-> Given(<<0, 1>>)],
     [network_name |-> <<"xor_2", StateMark, "0", "1">>,
      state |-> Given(<<0, 1>>)],
     [network_name |-> <<"ghost">>, state |-> NoState],
     [network_name |-> <<"unit">>, state |-> NoState]}

\* one of the build_* methods
Build(b) ==
    /\ Called
    /\ Becomes(declared(Engine, b.name, b.network))
    /\ ret' = [op |-> "build", network_name |-> b.name, value |-> b.network]

\* network = _make_network(tpm, cm, labels); networks[name] = network
DeclareNetwork(d) ==
    /\ Called
    /\ IF make_network_raises(d.tpm, d.cm, d.labels)
       THEN /\ ret' = [op |-> "declare", network_name |-> d.name,
                       raised |-> "ValueError"]
            /\ UNCHANGED <<networks, results, built, seen, run, known>>
            /\ UNCHANGED ledger_vars
       ELSE LET network == make_network(d.tpm, d.cm, d.labels)
            IN  /\ Becomes(declared(Engine, d.name, network))
                /\ ret' = [op |-> "declare", network_name |-> d.name,
                           value |-> network]

\* a phi call returns: e is the engine afterwards
PhiReturns(op, c, e) ==
    /\ Becomes(e)
    /\ ret' = [op |-> op, network_name |-> c.network_name,
               state |-> c.state, value |-> e.out[1]]

\* a batch returns: r is [engine, value]
BatchReturns(op, r) ==
    /\ Becomes(r.engine)
    /\ ret' = [op |-> op, value |-> r.value]

ComputePhi(c) ==
    /\ Called
    /\ PhiReturns("compute_phi", c,
                  after_call(Engine,
                             PhiCall(c.network_name, c.state, TRUE, FALSE)))

ComputePhiDirect(c) ==
    /\ Called
    /\ PhiReturns("compute_phi_direct", c,
                  after_call(Engine,
                             PhiCall(c.network_name, c.state, FALSE, FALSE)))

ComputeAllSubsystems ==
    /\ Called
    /\ BatchReturns("compute_all_subsystems", compute_all_subsystems(Engine))

RunAllTests ==
    /\ Called
    /\ BatchReturns("run_all_tests", run_all_tests(Engine))

Next ==
    \/ \E b \in BuildersCalled : Build(b)
    \/ \E d \in UserDeclarations : DeclareNetwork(d)
    \/ \E c \in PhiInputs : ComputePhi(c)
    \/ \E c \in DirectInputs : ComputePhiDirect(c)
    \/ ComputeAllSubsystems
    \/ RunAllTests

Spec == Init /\ [][Next]_vars

(***************************************************************************)
(* The validations of run_all_tests (lines 775-856) on their own, as a     *)
(* function of results: with the tables of the builders every validation   *)
(* passes, so the outcomes are drawn here from the values a phi takes.     *)
(***************************************************************************)
\* results, one entry for each of test_configs in order, with the fields
\* the validations read; phi_all_active is at most phi_max
TestOutcomes ==
    LET entries(phis) == {[phi_all_active |-> a, phi_max |-> m] :
                             a \in phis, m \in phis}
        swept(phis) ==
            {e \in entries(phis) : ~RLess(e.phi_max, e.phi_all_active)}
        at_most(phis) ==
            {e \in entries(phis) : e.phi_all_active = e.phi_max}
    IN  {<<x, a, o, m, ff, loop>> :
            x \in at_most({RZero, <<1, 2>>, <<2, 1>>}),
            a \in at_most({<<1, 2>>, <<2, 1>>}),
            o \in at_most({<<1, 2>>, <<2, 1>>}),
            m \in at_most({RZero, <<2, 1>>}),
            ff \in swept({<<1, 2>>, <<2, 1>>}),
            loop \in swept({<<1, 2>>, <<2, 1>>})}

\* validations, passed, total and the report for the results given
Validate(outcome) ==
    /\ Called
    /\ ret' = [op |-> "validate", results |-> outcome,
               value |-> report(outcome)]
    /\ UNCHANGED <<networks, results, built, seen, run, known>>
    /\ UNCHANGED ledger_vars

ReportNext == \E outcome \in TestOutcomes : Validate(outcome)

ReportSpec == Init /\ [][ReportNext]_vars

(***************************************************************************)
(* HierarchicalPhiEngine.compute_hierarchical_phi from what its calls of   *)
(* compute_phi_direct return (lines 1150-1223): the modules of five and    *)
(* six nodes are not computed here, the results of their sweeps are drawn  *)
(* from a few values.                                                      *)
(***************************************************************************)
\* n of the four build_extended_* methods, in the order of level1_names
ModuleNodes == <<6, 5, 5, 6>>

\* np.log1p(total_nodes), to the five decimals that keep
\* 1 + 0.1 * np.log1p(total_nodes) within six: ln(23) and ln(27)
log1p(total_nodes) ==
    CASE total_nodes = 22 -> Rat(313549, 100000)
      [] total_nodes = 26 -> Rat(329584, 100000)

\* all_states_phi, meta_states_phi: r["phi"] of the results without "error"
phis_without_errors(rs) ==
    LET kept == SelectSeq(rs, LAMBDA r : ~is_error(r))
    IN  List([k \in 1..Len(kept) |-> kept[k].phi])

\* max(all_states_phi) if all_states_phi else 0.0
max_or_zero(phis) == IF Len(phis) = 0 THEN RZero ELSE phi_max(phis)

\* level1_details, in the order of level1_names
level1_details(modules) ==
    List([m \in 1..Len(modules) |->
            [nodes |-> ModuleNodes[m],
             phi_active |-> modules[m].active.phi,
             phi_max |-> max_or_zero(phis_without_errors(modules[m].states)),
             states_tested |-> Len(phis_without_errors(modules[m].states))]])

\* the variant that counts the four nodes of the meta-network as well
total_nodes_with_meta(details) ==
    IntSumOver(List([m \in 1..Len(details) |-> details[m].nodes]),
               1, Len(details)) + 4
\* total_nodes += n
total_nodes_of(details) ==
    IntSumOver(List([m \in 1..Len(details) |-> details[m].nodes]),
               1, Len(details))

\* level1_total; level1_avg is level1_total / len(level1_details)
level1_total(details) ==
    RSum(List([m \in 1..Len(details) |-> details[m].phi_max]))

\* the variant with the weights of the two levels exchanged
h_phi_weights_exchanged(l1_avg, meta_max, total_nodes) ==
    RMul(RAdd(RMul(l1_avg, <<2, 5>>), RMul(meta_max, <<3, 5>>)),
         RAdd(ROne, RMul(<<1, 10>>, log1p(total_nodes))))
\* (level1_avg * 0.6 + meta_max * 0.4) * (1 + 0.1 * np.log1p(total_nodes))
h_phi(l1_avg, meta_max, total_nodes) ==
    RMul(RAdd(RMul(l1_avg, <<3, 5>>), RMul(meta_max, <<2, 5>>)),
         RAdd(ROne, RMul(<<1, 10>>, log1p(total_nodes))))

\* self.hierarchical_phi
hierarchical_phi(details, meta_max) ==
    After(<<details, meta_max>>,
          [value |-> round6(h_phi(RDivInt(level1_total(details), Len(details)),
                             meta_max,
                             total_nodes_of(details))),
           components |->
             [level1_avg_max_phi |->
                round6(RDivInt(level1_total(details), Len(details))),
              level1_total_max_phi |-> round6(level1_total(details)),
              level2_max_phi |-> round6(meta_max),
              total_nodes |-> total_nodes_of(details),
              scale_factor |->
                round6(RAdd(ROne, RMul(<<1, 10>>,
                                       log1p(total_nodes_of(details)))))]])

\* the variant that hands build_meta_network each module's phi_max
level1_phi_max(modules) ==
    List([m \in 1..Len(modules) |->
            max_or_zero(phis_without_errors(modules[m].states))])
\* level1_phi[name] = result.get("phi", 0.0), result being what the call
\* for the all-ones state returned
level1_phi(modules) ==
    List([m \in 1..Len(modules) |-> modules[m].active.phi])

\* min(1.0, max(0.1, phi_val / max_phi))
phi_to_activation(phi_val, max_phi) ==
    LET scaled == RDivInt(phi_val, max_phi)
        raised == IF RLess(scaled, <<1, 10>>) THEN <<1, 10>> ELSE scaled
    IN  IF RLess(ROne, raised) THEN ROne ELSE raised

\* [new_gw, new_rec, new_ho, new_att] of the loop over state_idx
meta_row(state_idx) ==
    LET gw == Bit(state_idx, 0)
        rec == Bit(state_idx, 1)
        ho == Bit(state_idx, 2)
        att == Bit(state_idx, 3)
        active_count == gw + rec + ho + att
    IN  <<IF rec = 1 \/ (ho = 1 /\ att = 1) THEN 1
          ELSE IF gw = 1 /\ active_count >= 2 THEN 1 ELSE 0,
          IF gw = 1 \/ (att = 1 /\ rec = 1) THEN 1 ELSE 0,
          IF (gw = 1 /\ att = 1) \/ (ho = 1 /\ rec = 1) THEN 1
          ELSE IF active_count >= 3 THEN 1 ELSE 0,
          IF ho = 1 \/ (rec = 1 /\ gw = 0) THEN 1
          ELSE IF att = 1 /\ active_count >= 2 THEN 1 ELSE 0>>

\* the variant in which a module's activation is the probability that its
\* node comes on
meta_network_from_activations(level1_phi_values) ==
    [network |->
        [tpm |-> List([r \in 1..16 |-> List([m \in 1..4 |->
                    IF meta_row(r - 1)[m] = 1
                    THEN phi_to_activation(level1_phi_values[m], 3)
                    ELSE RZero])]),
         cm |-> <<<<0, 1, 1, 0>>, <<1, 0, 0, 1>>, <<1, 0, 0, 1>>,
                  <<0, 1, 1, 0>>>>,
         labels |-> <<"GW_Module", "Recurrence_Module", "HigherOrder_Module",
                      "AttentionSchema_Module">>],
     activations |->
        List([m \in 1..4 |->
                pyround(phi_to_activation(level1_phi_values[m], 3), 3)])]
\* networks['meta_network'], and a_gw, a_rec, a_ho, a_as as the log has
\* them, to three decimals; level1_phi_values in the order of level1_names
build_meta_network(level1_phi_values) ==
    [network |->
        make_network(List([r \in 1..16 |-> meta_row(r - 1)]),
                     <<<<0, 1, 1, 0>>, <<1, 0, 0, 1>>, <<1, 0, 0, 1>>,
                       <<0, 1, 1, 0>>>>,
                     <<"GW_Module", "Recurrence_Module", "HigherOrder_Module",
                       "AttentionSchema_Module">>),
     activations |->
        List([m \in 1..4 |->
                pyround(phi_to_activation(level1_phi_values[m], 3), 3)])]

\* the report: modules[m] is what the calls for the m-th module returned
\* (active for the all-ones state, states for the states sampled) and meta
\* what the sixteen calls for the meta-network returned
hierarchical_report(modules, meta) ==
    [level1 |-> level1_details(modules),
     meta_network |-> build_meta_network(level1_phi(modules)),
     level2 |-> [nodes |-> 4,
                 phi_max |-> max_or_zero(phis_without_errors(meta)),
                 states_tested |-> Len(phis_without_errors(meta))],
     hierarchical_phi |->
        hierarchical_phi(level1_details(modules),
                         max_or_zero(phis_without_errors(meta)))]

\* what the sweep of a network returns, states left out: results with a
\* phi, and results of the except block
SweepOutcomes(phis) ==
    LET ok(x) == [phi |-> x]
        failed == [phi |-> RZero, error |-> IndexError]
    IN  {<<ok(phis[1]), ok(phis[2])>>, <<failed, ok(phis[3])>>, <<failed>>}

\* the results drawn for the four modules: the all-ones state of a module
\* of five or six nodes is not among the sixteen states sampled, and its
\* phi may be above theirs
ModuleOutcomes ==
    LET sampled == SweepOutcomes(<<<<1, 2>>, <<1, 4>>, ROne>>)
        active(s) == IF Len(s) = 2 /\ ~is_error(s[1])
                     THEN [phi |-> <<7, 2>>] ELSE s[Len(s)]
        module == {[active |-> active(s), states |-> s] : s \in sampled}
    IN  {<<a, b, c, d>> : a \in module, b \in module,
                          c \in {m \in module : ~is_error(m.active)},
                          d \in {m \in module : ~is_error(m.active)}}

ComputeHierarchicalPhi(modules, meta) ==
    /\ Called
    /\ ret' = [op |-> "compute_hierarchical_phi", modules |-> modules,
               meta |-> meta, value |-> hierarchical_report(modules, meta)]
    /\ UNCHANGED <<networks, results, built, seen, run, known>>
    /\ UNCHANGED ledger_vars

HierarchyNext ==
    \E modules \in ModuleOutcomes :
        \E meta \in SweepOutcomes(<<<<3, 10>>, RZero, <<1, 2>>>>) :
            ComputeHierarchicalPhi(modules, meta)

HierarchySpec == Init /\ [][HierarchyNext]_vars

(***************************************************************************)
(* orion_evo_proof.py: the proof ledger PROOFS.jsonl and its state file    *)
(* ORION_EVO_STATE.json.  A text is a sequence of pieces of text; a JSON   *)
(* object is the sequence of its <<key, value>> pairs in the order of      *)
(* insertion, its values texts.                                            *)
(***************************************************************************)
\* hashlib.sha256(text.encode()).hexdigest(): two texts that differ have
\* digests that differ
sha256(text) == <<"sha256(">> \o text \o <<")">>

\* OWNER, with its character outside ASCII, and ORION_ID
OWNER == <<"Elisabeth Steurer & Gerhard Hirschmann ", "U+00B7",
           " Almdorf 9 TOP 10">>
ORION_ID == <<"uuid5(NAMESPACE_DNS, orion:steurer-hirschmann:almdorf9_top10)">>

\* hashlib.sha256(b"ORION_GENESIS_EVO").hexdigest()
GenesisEvo == sha256(<<"ORION_GENESIS_EVO">>)

\* the keys of a proof in the order sort_keys=True puts them
SortedKeys == <<"hash", "kind", "orion_id", "owner", "payload", "prev_hash",
                "ts">>

\* entry.get(key, default), key in entry, and the entry without some keys
Get(entry, key, default) ==
    IF \E i \in 1..Len(entry) : entry[i][1] = key
    THEN entry[CHOOSE i \in 1..Len(entry) : entry[i][1] = key][2]
    ELSE default
Has(entry, key) == \E i \in 1..Len(entry) : entry[i][1] = key
Without(entry, keys) == SelectSeq(entry, LAMBDA pair : pair[1] \notin keys)

\* a string as json.dumps writes it: with ensure_ascii a character outside
\* ASCII is written as its escape
Escaped(value, ensure_ascii) ==
    List([k \in 1..Len(value) |->
            IF ensure_ascii /\ value[k] = "U+00B7" THEN "\\u00b7"
            ELSE value[k]])

RECURSIVE Members(_, _, _)
\* "key": value, ... for the first k pairs
Members(pairs, ensure_ascii, k) ==
    IF k = 0 THEN <<>>
    ELSE Members(pairs, ensure_ascii, k - 1)
         \o (IF k = 1 THEN <<>> ELSE <<", ">>)
         \o <<pairs[k][1], ": ">> \o Escaped(pairs[k][2], ensure_ascii)

\* json.dumps(obj, sort_keys=sort_keys, ensure_ascii=ensure_ascii)
dumps(obj, sort_keys, ensure_ascii) ==
    LET sorted == SelectSeq(
            List([k \in 1..Len(SortedKeys) |->
                    <<SortedKeys[k], Get(obj, SortedKeys[k], <<>>)>>]),
            LAMBDA pair : Has(obj, pair[1]))
    IN  <<"{">>
        \o (IF sort_keys THEN Members(sorted, ensure_ascii, Len(sorted))
            ELSE Members(obj, ensure_ascii, Len(obj)))
        \o <<"}">>

\* a line of PROOFS.jsonl: what json.dumps(proof_data, ensure_ascii=False)
\* wrote, held as json.loads gives it back, or a line that is not JSON
Line(proof_data) == [json |-> TRUE, entry |-> proof_data]
NotJson == [json |-> FALSE, entry |-> <<>>]

\* _chain_hash
chain_hash(previous_hash, payload_str) ==
    sha256(previous_hash \o <<":">> \o payload_str)

\* the state file: absent, emptied by open(EVO_STATE_FILE, "w") and not yet
\* written, or holding a state
Emptied == [exists |-> TRUE, empty |-> TRUE, state |-> <<>>]
Holding(state) == [exists |-> TRUE, empty |-> FALSE, state |-> state]

\* _load_evo_state: json.load raises JSONDecodeError on the emptied file
load_evo_state(file) ==
    IF ~file.exists
    THEN [raised |-> FALSE,
          state |-> [evolution_count |-> 0, last_hash |-> GenesisEvo,
                     workflow_mutations |-> 0]]
    ELSE IF file.empty THEN [raised |-> TRUE, state |-> <<>>]
    ELSE [raised |-> FALSE, state |-> file.state]

\* proof_data before and after prev_hash and hash are put in
proof_data(ts, kind, payload) ==
    <<<<"ts", ts>>, <<"kind", kind>>, <<"payload", payload>>,
      <<"owner", OWNER>>, <<"orion_id", ORION_ID>>>>
chained(data, prev_hash) ==
    data \o <<<<"prev_hash", prev_hash>>,
              <<"hash", chain_hash(prev_hash, dumps(data, TRUE, FALSE))>>>>

\* prev_hash = None
None == <<"None">>

RECURSIVE verify_lines(_, _, _, _)
\* the loop of ProofOfEvolution.verify_chain from line i on, 0-based in the
\* errors as enumerate counts: acc is [prev_hash, checked, recomputed,
\* errors]
verify_lines(lines, i, acc, upto) ==
    IF i > upto THEN acc
    ELSE IF ~lines[i].json THEN verify_lines(lines, i + 1, acc, upto)
    ELSE IF ~Has(lines[i].entry, "prev_hash") \/ ~Has(lines[i].entry, "hash")
    THEN verify_lines(lines, i + 1,
                      [acc EXCEPT !.checked = @ + 1], upto)
    ELSE LET entry == lines[i].entry
             stored_hash == Get(entry, "hash", None)
             stored_prev == Get(entry, "prev_hash", None)
             recomputed_hash ==
                 chain_hash(stored_prev,
                            dumps(Without(entry, {"prev_hash", "hash"}),
                                  TRUE, FALSE))
             chain_break ==
                 IF acc.prev_hash # None /\ stored_prev # acc.prev_hash
                 THEN <<[line |-> i - 1, type |-> "CHAIN_BREAK"]>> ELSE <<>>
             hash_mismatch ==
                 IF recomputed_hash # stored_hash
                 THEN <<[line |-> i - 1, type |-> "HASH_MISMATCH"]>>
                 ELSE <<>>
         IN  verify_lines(lines, i + 1,
                 [prev_hash |-> stored_hash,
                  checked |-> acc.checked + 1,
                  recomputed |-> acc.recomputed
                                  + (IF recomputed_hash = stored_hash
                                     THEN 1 ELSE 0),
                  errors |-> acc.errors \o chain_break \o hash_mismatch],
                 upto)

\* PROOFS.jsonl once it exists, with its lines
FileOf(lines) == [exists |-> TRUE, lines |-> lines]

\* lines[-limit:] if limit; limit = 0 stands for limit=None
LastLines(lines, limit) ==
    IF limit > 0 /\ limit < Len(lines)
    THEN SubSeq(lines, Len(lines) - limit + 1, Len(lines)) ELSE lines

\* the dict returned after the loop
verify_result(end) ==
    [valid |-> Len(end.errors) = 0, checked |-> end.checked,
     recomputed_valid |-> end.recomputed, errors |-> end.errors,
     chain_integrity |-> IF Len(end.errors) = 0 THEN "INTACT" ELSE "BROKEN"]

\* ProofOfEvolution.verify_chain(limit)
verify_chain(file, limit) ==
    IF ~file.exists THEN [valid |-> TRUE, checked |-> 0, errors |-> <<>>]
    ELSE verify_result(
             verify_lines(LastLines(file.lines, limit), 1,
                          [prev_hash |-> None, checked |-> 0,
                           recomputed |-> 0, errors |-> <<>>],
                          Len(LastLines(file.lines, limit))))

(***************************************************************************)
(* verify_proof_chain.py, the standalone verifier                          *)
(***************************************************************************)
\* load_proofs: open raises when there is no file and json.loads on a
\* line that is not JSON
load_proofs(file) ==
    IF ~file.exists \/ \E k \in 1..Len(file.lines) : ~file.lines[k].json
    THEN [raised |-> TRUE, proofs |-> <<>>]
    ELSE [raised |-> FALSE,
          proofs |-> List([k \in 1..Len(file.lines) |->
                             file.lines[k].entry])]

\* verify_hash(proof): stored == computed
verify_hash(proof) ==
    Get(proof, "hash", <<>>)
    = sha256(dumps(Without(proof, {"hash"}), TRUE, TRUE))

\* genesis of verify_proof_chain.verify_chain
GenesisStandalone ==
    <<"GENESIS_0000000000000000000000000000000000000000000000000000000000">>

RECURSIVE standalone_errors(_, _, _)
\* the errors of verify_proof_chain.verify_chain for proofs[i..], prev being
\* the hash of the proof before
standalone_errors(proofs, i, prev) ==
    IF i > Len(proofs) THEN <<>>
    ELSE (IF Get(proofs[i], "prev_hash", <<>>) # prev
          THEN <<[proof |-> i - 1, type |-> "prev_hash mismatch"]>>
          ELSE <<>>)
         \o (IF ~verify_hash(proofs[i])
             THEN <<[proof |-> i - 1, type |-> "hash mismatch"]>> ELSE <<>>)
         \o standalone_errors(proofs, i + 1, Get(proofs[i], "hash", <<>>))

(***************************************************************************)
(* Processes that call ProofOfEvolution.record_workflow_mutation on the    *)
(* same two files.  A step is what a process does to a file between two    *)
(* points where another process can act: flock, the reads and writes of    *)
(* the state file, the append to PROOFS.jsonl.                             *)
(***************************************************************************)
Procs == {1, 2}

\* a process outside a call
Idle == [pc |-> "idle", data |-> <<>>, prev_hash |-> <<>>,
         new_hash |-> <<>>, state |-> <<>>]

\* ts and the delta of a call: one time of day, one of two workflows
Payloads == {<<"WORKFLOW_MUTATION", "w1", "TextGrad">>,
             <<"WORKFLOW_MUTATION", "w3", "TextGrad">>}
Now == <<"2026-01-01T00:00:00+00:00">>

\* the engine's variables are left alone by the ledger
EngineUnchanged == UNCHANGED <<networks, results, built, seen, run, known>>

\* the call ends: what record_workflow_mutation returned, or that it raised
Returned(p, raised, proof) ==
    ret' = [op |-> "record_workflow_mutation", process |-> p,
            raised |-> raised, value |-> proof]

\* record_workflow_mutation is called: delta is built, _append_proof takes
\* ts and opens the lock file
Record(p, payload) ==
    /\ Called
    /\ procs[p].pc = "idle"
    /\ procs' = [procs EXCEPT ![p] =
                    [Idle EXCEPT !.pc = "flock",
                        !.data = proof_data(Now, <<"EVO_WORKFLOW">>, payload)]]
    /\ UNCHANGED <<proof_file, state_file, lock, appended, ret>>
    /\ EngineUnchanged

\* fcntl.flock(lock_f.fileno(), fcntl.LOCK_EX)
Flock(p) ==
    /\ procs[p].pc = "flock"
    /\ lock = 0
    /\ lock' = p
    /\ procs' = [procs EXCEPT ![p].pc = "get_last_hash"]
    /\ UNCHANGED <<proof_file, state_file, appended, ret, calls>>
    /\ EngineUnchanged

\* prev_hash = _get_last_hash(); when _load_evo_state raises, the finally
\* clause unlocks and the call ends
GetLastHash(p) ==
    /\ procs[p].pc = "get_last_hash"
    /\ IF load_evo_state(state_file).raised
       THEN /\ lock' = 0
            /\ procs' = [procs EXCEPT ![p] = Idle]
            /\ Returned(p, TRUE, <<>>)
       ELSE /\ procs' = [procs EXCEPT ![p].pc = "append",
                            ![p].prev_hash =
                                load_evo_state(state_file).state.last_hash]
            /\ UNCHANGED <<lock, ret>>
    /\ UNCHANGED <<proof_file, state_file, appended, calls>>
    /\ EngineUnchanged

\* proof_data gets prev_hash and hash and is appended to PROOFS.jsonl
AppendLine(p) ==
    /\ procs[p].pc = "append"
    /\ proof_file' = FileOf(Append(proof_file.lines,
                           Line(chained(procs[p].data, procs[p].prev_hash))))
    /\ appended' = Append(appended,
                          Line(chained(procs[p].data, procs[p].prev_hash)))
    /\ procs' = [procs EXCEPT ![p].pc = "load",
                    ![p].data = chained(procs[p].data, procs[p].prev_hash),
                    ![p].new_hash =
                        Get(chained(procs[p].data, procs[p].prev_hash),
                            "hash", <<>>)]
    /\ UNCHANGED <<state_file, lock, ret, calls>>
    /\ EngineUnchanged

\* state = _load_evo_state(), still under the lock
LoadState(p) ==
    /\ procs[p].pc = "load"
    /\ IF load_evo_state(state_file).raised
       THEN /\ lock' = 0
            /\ procs' = [procs EXCEPT ![p] = Idle]
            /\ Returned(p, TRUE, <<>>)
       ELSE /\ procs' = [procs EXCEPT ![p].pc = "write",
                            ![p].state = load_evo_state(state_file).state]
            /\ UNCHANGED <<lock, ret>>
    /\ UNCHANGED <<proof_file, state_file, appended, calls>>
    /\ EngineUnchanged

\* _atomic_write_json of the state with last_hash and evolution_count, then
\* the finally clause unlocks
WriteState(p) ==
    /\ procs[p].pc = "write"
    /\ state_file' = Holding([procs[p].state EXCEPT
                                !.last_hash = procs[p].new_hash,
                                !.evolution_count = @ + 1])
    /\ lock' = 0
    /\ procs' = [procs EXCEPT ![p].pc = "load_after"]
    /\ UNCHANGED <<proof_file, appended, ret, calls>>
    /\ EngineUnchanged

\* back in record_workflow_mutation, without the lock:
\* state = _load_evo_state()
LoadAfter(p) ==
    /\ procs[p].pc = "load_after"
    /\ IF load_evo_state(state_file).raised
       THEN /\ procs' = [procs EXCEPT ![p] = Idle]
            /\ Returned(p, TRUE, <<>>)
       ELSE /\ procs' = [procs EXCEPT ![p].pc = "open",
                            ![p].state = load_evo_state(state_file).state]
            /\ UNCHANGED ret
    /\ UNCHANGED <<proof_file, state_file, lock, appended, calls>>
    /\ EngineUnchanged

\* _save_evo_state: open(EVO_STATE_FILE, "w") empties the file
OpenState(p) ==
    /\ procs[p].pc = "open"
    /\ state_file' = Emptied
    /\ procs' = [procs EXCEPT ![p].pc = "dump"]
    /\ UNCHANGED <<proof_file, lock, appended, ret, calls>>
    /\ EngineUnchanged

\* json.dump(state, f) of the state with workflow_mutations counted up, and
\* return proof
Dump(p) ==
    /\ procs[p].pc = "dump"
    /\ state_file' = Holding([procs[p].state EXCEPT
                                !.workflow_mutations = @ + 1])
    /\ procs' = [procs EXCEPT ![p] = Idle]
    /\ Returned(p, FALSE, procs[p].data)
    /\ UNCHANGED <<proof_file, lock, appended, calls>>
    /\ EngineUnchanged

LedgerNext ==
    \E p \in Procs :
        \/ \E payload \in Payloads : Record(p, payload)
        \/ Flock(p)
        \/ GetLastHash(p)
        \/ AppendLine(p)
        \/ LoadState(p)
        \/ WriteState(p)
        \/ LoadAfter(p)
        \/ OpenState(p)
        \/ Dump(p)

LedgerSpec == Init /\ [][LedgerNext]_vars

(***************************************************************************)
(* One process: _append_proof called again and again, the two verifiers,   *)
(* and, between calls, an edit of PROOFS.jsonl made from outside.          *)
(***************************************************************************)
\* _append_proof(kind, payload), from flock to unlock, no other process
\* acting: a state file emptied by another process's write is not met
AppendProof(payload) ==
    /\ Called
    /\ lock = 0
    /\ ~load_evo_state(state_file).raised
    /\ LET state == load_evo_state(state_file).state
           proof == chained(proof_data(Now, <<"EVO_WORKFLOW">>, payload),
                            state.last_hash)
       IN  /\ proof_file' = FileOf(Append(proof_file.lines, Line(proof)))
           /\ appended' = Append(appended, Line(proof))
           /\ state_file' = Holding([state EXCEPT
                                !.last_hash = Get(proof, "hash", <<>>),
                                !.evolution_count = @ + 1])
           /\ ret' = [op |-> "_append_proof", value |-> proof]
    /\ UNCHANGED <<lock, procs>>
    /\ EngineUnchanged

\* ProofOfEvolution.verify_chain()
VerifyChain ==
    /\ Called
    /\ ret' = [op |-> "verify_chain", value |-> verify_chain(proof_file, 0)]
    /\ UNCHANGED ledger_vars
    /\ EngineUnchanged

\* verify_proof_chain: errors, chain_tip = verify_chain(load_proofs())
VerifyStandalone ==
    /\ Called
    /\ ret' = [op |-> "verify_proof_chain",
               raised |-> load_proofs(proof_file).raised,
               errors |-> standalone_errors(load_proofs(proof_file).proofs,
                                            1, GenesisStandalone)]
    /\ UNCHANGED ledger_vars
    /\ EngineUnchanged

\* the file as it was appended is edited once, from outside the program
Edited(lines) ==
    /\ proof_file.exists
    /\ proof_file.lines = appended
    /\ proof_file' = FileOf(lines)
    /\ ret' = [op |-> "edit"]
    /\ UNCHANGED <<state_file, lock, procs, appended, calls>>
    /\ EngineUnchanged

\* the k-th line is removed
RemoveLine(k) ==
    /\ k \in 1..Len(proof_file.lines)
    /\ Edited(SubSeq(proof_file.lines, 1, k - 1)
              \o SubSeq(proof_file.lines, k + 1, Len(proof_file.lines)))

\* the payload of the k-th line is replaced, its hashes left as they are
AlterPayload(k) ==
    /\ k \in 1..Len(proof_file.lines)
    /\ Edited([proof_file.lines EXCEPT ![k] =
                Line([i \in 1..Len(@.entry) |->
                        IF @.entry[i][1] = "payload"
                        THEN <<"payload",
                               <<"WORKFLOW_MUTATION", "w2", "TextGrad">>>>
                        ELSE @.entry[i]])])

\* the k-th line and the next change places
SwapLines(k) ==
    /\ k \in 1..(Len(proof_file.lines) - 1)
    /\ Edited([proof_file.lines EXCEPT ![k] = proof_file.lines[k + 1],
                                       ![k + 1] = proof_file.lines[k]])

\* the k-th line is cut short and is no JSON any more
GarbleLine(k) ==
    /\ k \in 1..Len(proof_file.lines)
    /\ Edited([proof_file.lines EXCEPT ![k] = NotJson])

ChainNext ==
    \/ \E payload \in Payloads : AppendProof(payload)
    \/ VerifyChain
    \/ VerifyStandalone
    \/ \E k \in 1..MaxCalls :
          \/ RemoveLine(k)
          \/ AlterPayload(k)
          \/ SwapLines(k)
          \/ GarbleLine(k)

ChainSpec == Init /\ [][ChainNext]_vars

(***************************************************************************)
(* Properties                                                              *)
(***************************************************************************)
PhiOps == {"compute_phi", "compute_phi_direct"}
BatchOps == {"compute_all_subsystems", "run_all_tests"}

\* the last call was compute_phi or compute_phi_direct and reached
\* _compute_phi_for_network
Computed == ret.op \in PhiOps /\ "network" \in DOMAIN ret.value

\* the network the last call computed on
NetworkOfCall ==
    networks[lookup(networks, ret.network_name, ret.op = "compute_phi")[1]]

NodesOf(network) == Len(network.tpm[1])

\* the smallest of a non-empty sequence of scores
MinOf(scores) ==
    CHOOSE m \in SeqRange(scores) : \A s \in SeqRange(scores) : ~RLess(s, m)

\* the scores the run gave to the bipartitions that are the cut it returned
ScoresOfCut(r) ==
    LET parts == Bipartitions(r.n_nodes, r.n_nodes - 1)
    IN  {r.scores[k] : k \in {j \in 1..Len(parts) :
                                 CutOf(parts[j]) = r.best_cut}}

C2_SmallNetworkIsZero ==
    (Computed /\ NodesOf(NetworkOfCall) <= 1)
    => /\ ~is_error(ret.value)
       /\ ret.value.phi = RZero
       /\ ret.value.mip_cut = NoCut

\* the one-node network asked for a state of three
C2_SmallNetworkAsked ==
    /\ Computed
    /\ NodesOf(NetworkOfCall) = 1
    /\ ret.state = Given(<<1, 1, 0>>)
    /\ ret.value.phi = RZero
    /\ ret.value.mip_cut = NoCut

\* C3: every computation of phi for the same network definition and the
\* same state gives the same phi and the same cut, whatever was called in
\* between.
C3_SameAnswerEveryTime ==
    \A t \in seen : \A u \in seen :
        (t[1] = u[1] /\ t[2] = u[2]) => (t[3] = u[3] /\ t[4] = u[4])

\* xor_2 at (0, 1) answered now as an earlier call under another key
\* answered it, with the canonical tests run as well
C3_AskedAgain ==
    /\ ret.op = "compute_phi"
    /\ ret.network_name = <<"xor_2">>
    /\ ret.state = Given(<<0, 1>>)
    /\ <<"xor_2", StateMark, "0", "1">> \in DOMAIN results
    /\ results[<<"xor_2", StateMark, "0", "1">>].state = <<0, 1>>
    /\ results[<<"xor_2", StateMark, "0", "1">>].phi = ret.value.phi
    /\ results[<<"xor_2", StateMark, "0", "1">>].mip_cut = ret.value.mip_cut
    /\ <<"majority_3">> \in DOMAIN results

\* what a call for the state returns when nothing else has been called
\* since the network was declared
Alone(key, name, state) ==
    compute_phi_for_network(known, key, built[name], Given(state)).result

\* a batch returned a value for every network declared
BatchComplete ==
    /\ ret.op = "compute_all_subsystems" =>
         /\ ret.value.networks_computed = Cardinality(DOMAIN networks)
         /\ DOMAIN ret.value.active_state_results = DOMAIN networks
         /\ DOMAIN ret.value.ground_state_results = DOMAIN networks
         /\ \A name \in DOMAIN networks :
              /\ ret.value.active_state_results[name].phi = results[name].phi
              /\ ret.value.ground_state_results[name].phi
                     = results[ground_key(name)].phi
    /\ ret.op = "run_all_tests" =>
         \A k \in 1..Len(CanonicalBuilders) :
            LET name == CanonicalBuilders[k].name
            IN  /\ name \in DOMAIN ret.value.networks
                /\ Len(ret.value.networks[name].all_states)
                       = Pow2(NodesOf(networks[name]))

Swept(network) ==
    IF Pow2(NodesOf(network)) < SweepLimit THEN Pow2(NodesOf(network))
    ELSE SweepLimit

\* the summary has no entry that counts faulted states
faults_reported(given, name) == 0

\* the states the summary gives as tested
tested_reported(given, name) ==
    IF name \in DOMAIN given.multi_state_analysis
    THEN given.multi_state_analysis[name].states_tested
    ELSE 0

\* C5: the results of a batch account for every state: those that faulted
\* are counted as such, none is left out silently.
C5_FaultsCounted ==
    ret.op = "compute_all_subsystems" =>
        \A name \in DOMAIN networks :
            tested_reported(ret.value, name)
                + faults_reported(ret.value, name) = Swept(networks[name])

C7_WrongLengthFails ==
    (/\ Computed
     /\ Len(ret.value.state) # NodesOf(NetworkOfCall))
    => /\ ~run.ran
       /\ is_error(ret.value)
       /\ ret.network_name \notin DOMAIN results

\* C8: every network declared has a table of 2^n rows of n entries and a
\* connectivity matrix of n rows of n entries.
C8_TablesWellShaped ==
    \A name \in DOMAIN networks :
        LET network == networks[name]
            n == NodesOf(network)
        IN  /\ Len(network.tpm) = Pow2(n)
            /\ \A r \in 1..Len(network.tpm) : Len(network.tpm[r]) = n
            /\ Len(network.labels) = n

\* C9, as the specification states it: a call for an identifier that is not declared fails: no
\* network stands in for it, nothing is computed and nothing is recorded
\* under the identifier.
C9_UndeclaredFails ==
    (ret.op \in PhiOps /\ ret.network_name \notin DOMAIN networks)
    => /\ ret.value = not_found(ret.network_name)
       /\ ~run.ran
       /\ ret.network_name \notin DOMAIN results

\* C9, as the code has it: compute_phi_direct for an identifier that is not declared,
\* and compute_phi for one whose base identifier (the identifier without
\* "_ground" and without a trailing "_s" and binary digits) is not declared
\* either, return the not-found error with phi 0, compute nothing and record
\* nothing; compute_phi for an undeclared identifier whose base identifier
\* is declared computes on the base network and records the result under
\* the identifier as given.
C9_UndeclaredFailsOrFallsBack ==
    [][(ret'.op \in PhiOps /\ ret'.network_name \notin DOMAIN networks)
       => IF /\ ret'.op = "compute_phi"
             /\ base_name_of(ret'.network_name) \in DOMAIN networks
          THEN /\ ret'.value =
                     Alone(ret'.network_name,
                           base_name_of(ret'.network_name),
                           IF ret'.state.given THEN ret'.state.value
                           ELSE Ones(NodesOf(
                                   networks[base_name_of(ret'.network_name)])))
               /\ results' = Put(results, ret'.network_name, ret'.value)
               /\ networks' = networks
          ELSE /\ ret'.value = not_found(ret'.network_name)
               /\ run' = NoRun
               /\ results' = results
               /\ networks' = networks
               /\ seen' = seen]_vars

\* an identifier that is not declared, and whose base identifier is not,
\* asked of an engine that has networks
C9_UndeclaredAsked ==
    /\ ret.op \in PhiOps
    /\ ret.network_name \notin DOMAIN networks
    /\ DOMAIN networks # {}
    /\ ret.value = not_found(ret.network_name)
    /\ ~run.ran

\* C10, as the specification states it: a call for a network of n >= 2 nodes evaluates
\* 2^(n-1) - 1 bipartitions.
C10_HalfTheSplits ==
    (run.ran /\ run.n_nodes >= 2)
    => Len(run.scores) = Pow2(run.n_nodes - 1) - 1

\* C10, as the code has it: a call for a network of n >= 2 nodes evaluates 2^n - 2
\* bipartitions: each of the 2^(n-1) - 1 splits of the nodes in two is
\* evaluated twice, as (A, B) and as (B, A).
C10_EverySplitTwice ==
    (run.ran /\ run.n_nodes >= 2)
    => LET parts == Bipartitions(run.n_nodes, run.n_nodes - 1)
           split(k) == {parts[k].a, parts[k].b}
       IN  /\ Len(run.scores) = Pow2(run.n_nodes) - 2
           /\ Len(parts) = Len(run.scores)
           /\ Cardinality({split(k) : k \in 1..Len(parts)})
                  = Pow2(run.n_nodes - 1) - 1
           /\ \A k \in 1..Len(parts) :
                 Cardinality({j \in 1..Len(parts) : split(j) = split(k)}) = 2

\* a network of three nodes had its six bipartitions evaluated
C10_ThreeNodesSplit ==
    /\ run.ran
    /\ run.n_nodes = 3
    /\ Len(run.scores) = 6

\* s comes before t in lexicographic order, s and t of the same length
LexLess(s, t) ==
    \E i \in 1..Len(s) : s[i] < t[i] /\ \A j \in 1..(i - 1) : s[j] = t[j]

\* the place in the order of evaluation of the first bipartition that has
\* the smallest score
FirstOfMin(r) ==
    CHOOSE k \in 1..Len(r.scores) :
        /\ r.scores[k] = MinOf(r.scores)
        /\ \A j \in 1..(k - 1) : r.scores[j] # MinOf(r.scores)

\* C11: the bipartitions are evaluated with the size of side A ascending
\* from 1 to n-1 and, within one size, side A in lexicographic order; the
\* cut returned is the first of them that has the smallest score, and no
\* later one of the same score takes its place.
C11_FirstFoundKept ==
    (run.ran /\ run.n_nodes >= 2)
    => LET parts == Bipartitions(run.n_nodes, run.n_nodes - 1)
       IN  /\ Len(parts) = Len(run.scores)
           /\ \A k \in 1..Len(parts) :
                 /\ Cardinality(parts[k].a) \in 1..(run.n_nodes - 1)
                 /\ \A j \in (k + 1)..Len(parts) :
                       \/ Cardinality(parts[k].a) < Cardinality(parts[j].a)
                       \/ /\ Cardinality(parts[k].a) = Cardinality(parts[j].a)
                          /\ LexLess(SortedSeq(parts[k].a),
                                     SortedSeq(parts[j].a))
           /\ run.best_cut = CutOf(parts[FirstOfMin(run)])

\* a network of three nodes for which a later bipartition, another cut, has
\* the smallest score as well
C11_TieSeen ==
    /\ run.ran
    /\ run.n_nodes = 3
    /\ \E j \in (FirstOfMin(run) + 1)..Len(run.scores) :
          /\ run.scores[j] = MinOf(run.scores)
          /\ CutOf(Bipartitions(3, 2)[j]) # run.best_cut
    /\ run.best_cut = CutOf(Bipartitions(3, 2)[FirstOfMin(run)])

\* the states of a network of n nodes
AllStates(n) == {StateOfIndex(i, n) : i \in 0..(Pow2(n) - 1)}

\* the phi a call for the network and the state returns
PhiAt(name, state) == Alone(name, name, state).phi

\* the largest phi over all the states of the network
MaxPhi(name) ==
    LET phis == {PhiAt(name, s) : s \in AllStates(NodesOf(networks[name]))}
    IN  CHOOSE m \in phis : \A x \in phis : ~RLess(m, x)

\* the report of run_all_tests gives, as the network's phi_max, the largest
\* phi over all of its states
MaxReported(name) ==
    /\ ret.value.networks[name].states_tested
           = Pow2(NodesOf(networks[name]))
    /\ {ret.value.networks[name].all_states[k].state :
           k \in 1..Len(ret.value.networks[name].all_states)}
           = AllStates(NodesOf(networks[name]))
    /\ \A k \in 1..Len(ret.value.networks[name].all_states) :
          ret.value.networks[name].all_states[k].phi
              = PhiAt(name, ret.value.networks[name].all_states[k].state)
    /\ ret.value.networks[name].phi_max = MaxPhi(name)

\* C12: over the four states of each gate, the largest phi of xor_2 is
\* greater than the largest phi of and_2 and greater than the largest phi
\* of or_2, and run_all_tests reports both orderings as passed.
C12_XorAboveAndOr ==
    /\ {<<"xor_2">>, <<"and_2">>, <<"or_2">>} \subseteq DOMAIN networks =>
          /\ RLess(MaxPhi(<<"and_2">>), MaxPhi(<<"xor_2">>))
          /\ RLess(MaxPhi(<<"or_2">>), MaxPhi(<<"xor_2">>))
    /\ ret.op = "run_all_tests" =>
          /\ MaxReported(<<"xor_2">>)
          /\ MaxReported(<<"and_2">>)
          /\ MaxReported(<<"or_2">>)
          /\ ret.value.validations[1].pass
          /\ ret.value.validations[2].pass

\* the canonical tests have run: 3.5 for xor_2, 2 for and_2 and for or_2
C12_GatesTested ==
    /\ ret.op = "run_all_tests"
    /\ ret.value.networks[<<"xor_2">>].phi_max = <<7, 2>>
    /\ ret.value.networks[<<"and_2">>].phi_max = <<2, 1>>
    /\ ret.value.networks[<<"or_2">>].phi_max = <<2, 1>>

\* C13: phi of recurrent_loop at (1, 1, 1) is at least phi of
\* feedforward_chain at (1, 1, 1), and over the eight states the largest
\* phi of recurrent_loop is greater than the largest phi of
\* feedforward_chain; run_all_tests reports both as passed.
C13_LoopAboveChain ==
    /\ {<<"recurrent_loop">>, <<"feedforward_chain">>}
           \subseteq DOMAIN networks =>
          /\ ~RLess(PhiAt(<<"recurrent_loop">>, <<1, 1, 1>>),
                    PhiAt(<<"feedforward_chain">>, <<1, 1, 1>>))
          /\ RLess(MaxPhi(<<"feedforward_chain">>),
                   MaxPhi(<<"recurrent_loop">>))
    /\ ret.op = "run_all_tests" =>
          /\ MaxReported(<<"recurrent_loop">>)
          /\ MaxReported(<<"feedforward_chain">>)
          /\ ret.value.networks[<<"recurrent_loop">>].phi_all_active
                 = PhiAt(<<"recurrent_loop">>, <<1, 1, 1>>)
          /\ ret.value.networks[<<"feedforward_chain">>].phi_all_active
                 = PhiAt(<<"feedforward_chain">>, <<1, 1, 1>>)
          /\ ret.value.validations[3].pass
          /\ ret.value.validations[4].pass

\* the canonical tests have run: 2.5 for the loop, at (1, 1, 1) and at
\* most, and 0.5 for the chain
C13_LoopAndChainTested ==
    /\ ret.op = "run_all_tests"
    /\ ret.value.networks[<<"recurrent_loop">>].phi_all_active = <<5, 2>>
    /\ ret.value.networks[<<"recurrent_loop">>].phi_max = <<5, 2>>
    /\ ret.value.networks[<<"feedforward_chain">>].phi_all_active = <<1, 2>>
    /\ ret.value.networks[<<"feedforward_chain">>].phi_max = <<1, 2>>

\* C14: over the eight states of majority_3 the largest phi is greater than
\* 0, and run_all_tests reports it as passed.
C14_MajorityAboveZero ==
    /\ <<"majority_3">> \in DOMAIN networks => RPos(MaxPhi(<<"majority_3">>))
    /\ ret.op = "run_all_tests" =>
          /\ MaxReported(<<"majority_3">>)
          /\ ret.value.validations[5].pass

\* the canonical tests have run: 3.916667 for majority_3
C14_MajorityTested ==
    /\ ret.op = "run_all_tests"
    /\ ret.value.networks[<<"majority_3">>].phi_max = <<3916667, 1000000>>
    /\ ret.value.networks[<<"majority_3">>].phi_min = RZero

\* the last run of _find_mip was for xor_2 at the state (1, 1)
XorAtOnes ==
    /\ run.ran
    /\ run.tpm = xor_2_network.tpm
    /\ run.cm = xor_2_network.cm
    /\ run.state = <<1, 1>>

\* C15: for xor_2, the table [[0,0],[1,1],[1,1],[0,0]] fully connected, at
\* the state (1, 1), the distance is computed from row 3 of the table, the
\* effect distribution [0, 0], the baseline [0.5, 0.5] that is the mean of
\* the four rows, and the effect distance is 1.
C15_XorEffectAtOnes ==
    XorAtOnes
    => /\ run.n_nodes = 2
       /\ run.tpm = <<<<RZero, RZero>>, <<ROne, ROne>>,
                      <<ROne, ROne>>, <<RZero, RZero>>>>
       /\ run.cm = <<<<1, 1>>, <<1, 1>>>>
       /\ RowIndex(run.state, run.n_nodes) = 3
       /\ run.tpm[RowIndex(run.state, run.n_nodes) + 1] = <<RZero, RZero>>
       /\ unconstrained(run.tpm, run.n_nodes) = <<<<1, 2>>, <<1, 2>>>>
       /\ effect_distance(run.tpm, run.state, run.n_nodes) = ROne

\* compute_phi for xor_2 with the state left out, which is (1, 1), returned
\* 1.5
C15_XorAsked ==
    /\ XorAtOnes
    /\ ret.op = "compute_phi"
    /\ ret.state = NoState
    /\ ret.value.state = <<1, 1>>
    /\ ret.value.phi = <<3, 2>>

\* C17: the report has one entry for each of the five orderings (XOR > AND,
\* XOR > OR, loop max > chain max, loop all-active >= chain all-active,
\* majority max > 0), each with its own pass flag, whatever the outcomes;
\* passed is the number of entries flagged as passed and total is 5.
C17_EveryAssertionReported ==
    ret.op \in {"run_all_tests", "validate"}
    => LET v == ret.value.validations
       IN  /\ Len(v) = 5
           /\ List([k \in 1..5 |-> v[k].test])
                  = <<"XOR > AND", "XOR > OR",
                      "Recurrent Loop > Feedforward Chain",
                      "Recurrent Loop(active) >= Feedforward Chain(active)",
                      "Majority-3 has non-zero Phi">>
           /\ \A k \in 1..5 : v[k].pass \in BOOLEAN
           /\ ret.value.total = 5
           /\ ret.value.passed = Cardinality({k \in 1..5 : v[k].pass})
           /\ ret.op = "validate" =>
                 LET given(text) == result_named(ret.results, text)
                 IN  /\ v[1].pass = RLess(given("and_2").phi_max,
                                          given("xor_2").phi_max)
                     /\ v[2].pass = RLess(given("or_2").phi_max,
                                          given("xor_2").phi_max)
                     /\ v[3].pass = RLess(given("feedforward_chain").phi_max,
                                          given("recurrent_loop").phi_max)
                     /\ v[4].pass =
                            ~RLess(given("recurrent_loop").phi_all_active,
                                   given("feedforward_chain").phi_all_active)
                     /\ v[5].pass = RPos(given("majority_3").phi_max)

\* a report in which three of the five orderings failed
C17_FailuresReported ==
    /\ ret.op = "validate"
    /\ Len(ret.value.validations) = 5
    /\ ~ret.value.validations[1].pass
    /\ ~ret.value.validations[3].pass
    /\ ~ret.value.validations[5].pass
    /\ ret.value.passed = 2
    /\ ret.value.total = 5

\* the cut is a pair of sets of nodes, neither empty, that share no node
\* and together are the n nodes
WellFormedCut(cut, n) ==
    /\ Len(cut) = 2
    /\ SeqRange(cut[1]) # {}
    /\ SeqRange(cut[2]) # {}
    /\ SeqRange(cut[1]) \cap SeqRange(cut[2]) = {}
    /\ SeqRange(cut[1]) \cup SeqRange(cut[2]) = 0..(n - 1)
    /\ Len(cut[1]) + Len(cut[2]) = n

\* the result r of a computation on a network of n nodes is well-formed
WellFormed(r, n) ==
    /\ ~RLess(r.phi, RZero)
    /\ (n >= 2 /\ ~is_error(r)) => WellFormedCut(r.mip_cut, n)

\* C18: every result has phi >= 0, the faulted ones too, and for a network
\* of n >= 2 nodes whose computation did not fault the cut is a pair of
\* sets of nodes, neither empty, disjoint, whose union is {0, ..., n-1}.
C18_ResultsWellFormed ==
    /\ ret.op \in PhiOps =>
          /\ ~RLess(ret.value.phi, RZero)
          /\ Computed => WellFormed(ret.value, NodesOf(NetworkOfCall))
    /\ \A key \in DOMAIN results :
          /\ ~RLess(results[key].phi, RZero)
          /\ "network" \in DOMAIN results[key] =>
                WellFormed(results[key],
                           NodesOf(networks[lookup(networks, key, TRUE)[1]]))

\* a call for a network of three nodes returned a phi above 0 with its
\* cut, and a faulted result is recorded
C18_CutReturned ==
    /\ Computed
    /\ NodesOf(NetworkOfCall) = 3
    /\ ~is_error(ret.value)
    /\ RPos(ret.value.phi)
    /\ WellFormedCut(ret.value.mip_cut, 3)
    /\ \E key \in DOMAIN results : is_error(results[key])

\* the edges of cm that go from one side of the split to the other
EdgesAcross(cm, part) ==
    {e \in (part.a \cup part.b) \X (part.a \cup part.b) :
        /\ cm[e[1] + 1][e[2] + 1] > 0
        /\ (e[1] \in part.a) # (e[2] \in part.a)}

\* the places, in the order of evaluation, of the splits of the network that
\* no edge crosses
Disconnected(cm, n) ==
    {k \in 1..Len(Bipartitions(n, n - 1)) :
        EdgesAcross(cm, Bipartitions(n, n - 1)[k]) = {}}

\* C19: a split that no edge of the connectivity matrix crosses in either
\* direction scores 0 and has no cut table built for it, and a network that
\* has such a split has phi 0 at every state.
C19_DisconnectedIsZero ==
    /\ (run.ran /\ run.n_nodes >= 2) =>
          /\ \A k \in Disconnected(run.cm, run.n_nodes) :
                run.scores[k] = RZero
          /\ run.cut_tables =
                 Len(run.scores)
                     - Cardinality(Disconnected(run.cm, run.n_nodes))
          /\ Disconnected(run.cm, run.n_nodes) # {} =>
                /\ run.phi = RZero
                /\ ret.op \in PhiOps => ret.value.phi = RZero
    /\ \A t \in seen :
          (/\ t[1] \in DOMAIN built
           /\ NodesOf(built[t[1]]) >= 2
           /\ Disconnected(built[t[1]].cm, NodesOf(built[t[1]])) # {})
          => t[3] = RZero

\* the eight states of a network of three nodes, one of them connected to
\* no other, have been swept and one is asked again: four of the six splits
\* had a cut table built and a score above 0
C19_DisconnectedSwept ==
    /\ ret.op = "compute_phi"
    /\ ret.network_name = <<"apart">>
    /\ Computed
    /\ ret.value.phi = RZero
    /\ ret.value.mip_cut = <<<<2>>, <<0, 1>>>>
    /\ Cardinality({t \in seen : t[1] = <<"apart">>}) = 8
    /\ run.ran
    /\ run.cm = apart_declaration.cm
    /\ Disconnected(run.cm, run.n_nodes) = {3, 4}
    /\ run.cut_tables = 4
    /\ RPos(run.scores[1])
    /\ run.phi = RZero

\* the nodes with an edge to target that lie on the other side of the split
CrossPredecessors(cm, part, target) ==
    {s \in part.a \cup part.b :
        cm[s + 1][target + 1] > 0 /\ (s \in part.a) # (target \in part.a)}

\* the cut table of the last run's table for the k-th split of its nodes
CutTable(k) ==
    partitioned_tpm(run.tpm, run.cm,
                    Bipartitions(run.n_nodes, run.n_nodes - 1)[k].a,
                    Bipartitions(run.n_nodes, run.n_nodes - 1)[k].b)

\* C20: in the cut table of any split, for every row and every node that has
\* no edge to it from the other side of the split, a node with no edge to
\* it at all included, the entry is the entry of the table.
C20_UncutEntriesCopied ==
    (run.ran /\ run.n_nodes >= 2)
    => \A k \in 1..(Pow2(run.n_nodes) - 2) :
          /\ Len(CutTable(k)) = Len(run.tpm)
          /\ \A r \in 1..Len(run.tpm) :
             \A target \in 0..(run.n_nodes - 1) :
                CrossPredecessors(run.cm,
                    Bipartitions(run.n_nodes, run.n_nodes - 1)[k], target) = {}
                => CutTable(k)[r][target + 1] = run.tpm[r][target + 1]

\* a run on the network whose third node has no edge to it: in the cut
\* table of the first split the entries of the second node changed and
\* those of the third did not
C20_CutLeavesRest ==
    /\ run.ran
    /\ run.cm = apart_declaration.cm
    /\ \A s \in 0..2 : run.cm[s + 1][3] = 0
    /\ CrossPredecessors(run.cm, Bipartitions(3, 2)[1], 1) = {0}
    /\ \E r \in 1..8 : CutTable(1)[r][2] # run.tpm[r][2]
    /\ \A r \in 1..8 : CutTable(1)[r][3] = run.tpm[r][3]

\* the largest phi among the results that are not faults, 0 when all are
MaxOfSweep(rs) ==
    LET phis == {rs[k].phi : k \in {j \in 1..Len(rs) : ~is_error(rs[j])}}
    IN  IF phis = {} THEN RZero
        ELSE CHOOSE m \in phis : \A x \in phis : ~RLess(m, x)

\* (meanOfLevel1Max * 0.6 + Level2Max * 0.4) * (1 + 0.1 ln(1 + totalNodes))
\* for the sweeps the last call of compute_hierarchical_phi was given, with
\* totalNodes the nodes of the four modules
HierarchicalFormula ==
    LET level1_max == List([m \in 1..4 |-> MaxOfSweep(ret.modules[m].states)])
        mean == RDivInt(RSum(level1_max), 4)
        level2_max == MaxOfSweep(ret.meta)
        ln == log1p(ModuleNodes[1] + ModuleNodes[2] + ModuleNodes[3]
                        + ModuleNodes[4])
    IN  RMul(RAdd(RMul(mean, <<6, 10>>), RMul(level2_max, <<4, 10>>)),
             RAdd(ROne, RMul(<<1, 10>>, ln)))

SamePredecessors(cm, part, target) ==
    {s \in part.a \cup part.b :
        cm[s + 1][target + 1] > 0 /\ (s \in part.a) = (target \in part.a)}

\* the k-th split of the last run's nodes
SplitOf(k) == Bipartitions(run.n_nodes, run.n_nodes - 1)[k]

\* the rows that differ from row r at most in the bits of the nodes in free
RowsFrom(r, free, n) ==
    {r2 \in 0..(Pow2(n) - 1) :
        \A i \in (0..(n - 1)) \ free : Bit(r2, i) = Bit(r, i)}

\* the arithmetic mean of the table's entries for target over rows
MeanOfRows(tpm, rows, target) ==
    RDivInt(RSum(List([j \in 1..Cardinality(rows) |->
                         tpm[SortedSeq(rows)[j] + 1][target + 1]])),
            Cardinality(rows))

\* rows r1 and r2 agree on the bits of the nodes in fixed
AgreeOn(r1, r2, fixed) == \A i \in fixed : Bit(r1, i) = Bit(r2, i)

\* the first half of C21: the entry is the mean over the 2^k rows got from
\* the row by assigning the cross-partition predecessors' bits in every way
MeanOverCrossBits ==
    (run.ran /\ run.n_nodes >= 2)
    => \A k \in 1..(Pow2(run.n_nodes) - 2) :
       \A target \in 0..(run.n_nodes - 1) :
          (/\ CrossPredecessors(run.cm, SplitOf(k), target) # {}
           /\ SamePredecessors(run.cm, SplitOf(k), target) # {})
          => LET cut_tpm == CutTable(k)
                 cross == CrossPredecessors(run.cm, SplitOf(k), target)
             IN  \A r \in 0..(Pow2(run.n_nodes) - 1) :
                    /\ Cardinality(RowsFrom(r, cross, run.n_nodes))
                       = Pow2(Cardinality(cross))
                    /\ cut_tpm[r + 1][target + 1]
                       = MeanOfRows(run.tpm,
                                    RowsFrom(r, cross, run.n_nodes), target)

\* C21, as the specification states it: for a target with a cross-partition
\* predecessor and a same-partition predecessor the cut entry at a row is
\* the mean of the table's entries over the 2^k rows got from the row by
\* assigning the cross-partition predecessors' bits in every way, and two
\* rows that agree on the target's same-partition predecessor bits get the
\* same cut entry.
C21_SamePredecessorBitsDecide ==
    /\ MeanOverCrossBits
    /\ (run.ran /\ run.n_nodes >= 2)
       => \A k \in 1..(Pow2(run.n_nodes) - 2) :
          \A target \in 0..(run.n_nodes - 1) :
             (/\ CrossPredecessors(run.cm, SplitOf(k), target) # {}
              /\ SamePredecessors(run.cm, SplitOf(k), target) # {})
             => LET cut_tpm == CutTable(k)
                    same == SamePredecessors(run.cm, SplitOf(k), target)
                IN  \A r1, r2 \in 0..(Pow2(run.n_nodes) - 1) :
                       AgreeOn(r1, r2, same)
                       => cut_tpm[r1 + 1][target + 1]
                          = cut_tpm[r2 + 1][target + 1]

\* C21, as the code has it: for a target with a cross-partition predecessor
\* and a same-partition predecessor the cut entry at a row is the mean of
\* the table's entries over the 2^k rows got from the row by assigning the
\* cross-partition predecessors' bits in every way, every other bit held
\* at the row's value; hence two rows that agree on every bit other than
\* the cross-partition predecessors' get the same cut entry.
C21_OtherBitsDecide ==
    /\ MeanOverCrossBits
    /\ (run.ran /\ run.n_nodes >= 2)
       => \A k \in 1..(Pow2(run.n_nodes) - 2) :
          \A target \in 0..(run.n_nodes - 1) :
             (/\ CrossPredecessors(run.cm, SplitOf(k), target) # {}
              /\ SamePredecessors(run.cm, SplitOf(k), target) # {})
             => LET cut_tpm == CutTable(k)
                    others == (0..(run.n_nodes - 1))
                        \ CrossPredecessors(run.cm, SplitOf(k), target)
                IN  \A r1, r2 \in 0..(Pow2(run.n_nodes) - 1) :
                       AgreeOn(r1, r2, others)
                       => cut_tpm[r1 + 1][target + 1]
                          = cut_tpm[r2 + 1][target + 1]

\* a run in whose cut tables an entry of 0 or 1 became 1/2, the mean over
\* the rows of one cross-partition predecessor, for a target that has a
\* same-partition predecessor as well
C21_HalfByAveraging ==
    /\ run.ran
    /\ run.n_nodes >= 2
    /\ \E k \in 1..(Pow2(run.n_nodes) - 2) :
       \E target \in 0..(run.n_nodes - 1) :
       \E r \in 0..(Pow2(run.n_nodes) - 1) :
          /\ Cardinality(CrossPredecessors(run.cm, SplitOf(k), target)) = 1
          /\ SamePredecessors(run.cm, SplitOf(k), target) # {}
          /\ run.tpm[r + 1][target + 1] = ROne
          /\ CutTable(k)[r + 1][target + 1] = <<1, 2>>

\* C22: in the cut table of any split, for a node that has an edge to it
\* from the other side of the split and none from its own side, itself
\* included, the entry is exactly 1/2 in every row of a state, whatever the
\* table has there.
C22_NoiseWithoutSamePredecessor ==
    (run.ran /\ run.n_nodes >= 2)
    => \A k \in 1..(Pow2(run.n_nodes) - 2) :
       \A target \in 0..(run.n_nodes - 1) :
          (/\ CrossPredecessors(run.cm, SplitOf(k), target) # {}
           /\ SamePredecessors(run.cm, SplitOf(k), target) = {})
          => LET cut_tpm == CutTable(k)
             IN  \A r \in 1..Pow2(run.n_nodes) :
                    cut_tpm[r][target + 1] = <<1, 2>>

\* a run on the attention schema network: its second node has one edge to
\* it, from the first; the split ({0}, {1, 2}) turns the second node's
\* column, 0 in some rows and 1 in others, into 1/2 throughout
C22_SchemaBecomesNoise ==
    /\ run.ran
    /\ run.tpm = attention_schema_network.tpm
    /\ run.cm = attention_schema_network.cm
    /\ SplitOf(1).a = {0}
    /\ CrossPredecessors(run.cm, SplitOf(1), 1) = {0}
    /\ SamePredecessors(run.cm, SplitOf(1), 1) = {}
    /\ {run.tpm[r][2] : r \in 1..8} = {RZero, ROne}
    /\ {CutTable(1)[r][2] : r \in 1..8} = {<<1, 2>>}

\* sets of Level-1 phi values, one value for each module
Level1Values ==
    LET phis == {RZero, <<1, 4>>, ROne, <<7, 2>>}
    IN  {<<a, b, c, d>> : a \in phis, b \in phis, c \in phis, d \in phis}

\* the next values of the four module bits, as the rule is written
MetaRule(gw, rec, ho, att) ==
    <<(rec = 1 \/ (ho = 1 /\ att = 1)) \/ (gw = 1 /\ gw + rec + ho + att >= 2),
      gw = 1 \/ (att = 1 /\ rec = 1),
      ((gw = 1 /\ att = 1) \/ (ho = 1 /\ rec = 1)) \/ gw + rec + ho + att >= 3,
      (ho = 1 \/ (rec = 1 /\ gw = 0)) \/ (att = 1 /\ gw + rec + ho + att >= 2)>>

ClampedActivation(phi) ==
    pyround(IF RLess(phi, <<3, 10>>) THEN <<1, 10>>
            ELSE IF RLess(<<3, 1>>, phi) THEN ROne
            ELSE RDivInt(phi, 3), 3)

InUnit(x) == ~RLess(x, RZero) /\ ~RLess(ROne, x)

\* C25: when the entries of a network's table all lie in [0, 1], the cut
\* table of any split has the shape of the table, row for row (2^n rows of
\* n entries when the table has them), and its entries all lie in [0, 1].
C25_CutTableValid ==
    (/\ run.ran
     /\ run.n_nodes >= 2
     /\ \A r \in 1..Len(run.tpm) : \A i \in 1..Len(run.tpm[r]) :
           InUnit(run.tpm[r][i]))
    => \A k \in 1..(Pow2(run.n_nodes) - 2) :
          LET cut_tpm == CutTable(k)
          IN  /\ Len(cut_tpm) = Len(run.tpm)
              /\ Len(run.tpm) = Pow2(run.n_nodes)
                 => Len(cut_tpm) = Pow2(run.n_nodes)
              /\ \A r \in 1..Len(cut_tpm) :
                    /\ Len(cut_tpm[r]) = Len(run.tpm[r])
                    /\ Len(cut_tpm[r]) = run.n_nodes
                    /\ \A i \in 1..Len(cut_tpm[r]) : InUnit(cut_tpm[r][i])

\* a run on a table of eight rows of 0s and 1s: in the cut table of one
\* split, eight rows of three entries, an entry that was 0 is the mean 1/2
\* and another column the noise 1/2
C25_HalvesInCutTable ==
    /\ run.ran
    /\ run.n_nodes = 3
    /\ Len(run.tpm) = 8
    /\ \A r \in 1..8 : \A i \in 1..3 : run.tpm[r][i] \in {RZero, ROne}
    /\ \E k \in 1..6 :
          /\ Len(CutTable(k)) = 8
          /\ \E target \in 0..2 : \E r \in 1..8 :
                /\ SamePredecessors(run.cm, SplitOf(k), target) # {}
                /\ run.tpm[r][target + 1] = RZero
                /\ CutTable(k)[r][target + 1] = <<1, 2>>
          /\ \E target \in 0..2 :
                /\ SamePredecessors(run.cm, SplitOf(k), target) = {}
                /\ \A r \in 1..8 : CutTable(k)[r][target + 1] = <<1, 2>>

\* no row of the last run's table gives its state a probability above 0
NoRowProduces ==
    /\ run.ran
    /\ run.n_nodes >= 2
    /\ \A p \in 1..Pow2(run.n_nodes) :
          CauseProb(run.tpm[p], run.state, run.n_nodes) = RZero

\* C26: for a state no row of the table can produce, the cause distribution
\* stays the vector of zeros, the cause information is the sum of the
\* cumulative sums of the uniform baseline, (2^n + 1) / 2, the distance is
\* that plus the effect information, and the call returns a result that is
\* not a fault.
C26_ZeroCauseDistribution ==
    NoRowProduces
    => /\ cause_dist(cause_products(run.tpm, run.state, run.n_nodes))
          = List([p \in 1..Pow2(run.n_nodes) |-> RZero])
       /\ cause_distance(run.tpm, run.state, run.n_nodes)
          = Rat(Pow2(run.n_nodes) + 1, 2)
       /\ distribution_distance(run.tpm, run.state, run.n_nodes)
          = RAdd(Rat(Pow2(run.n_nodes) + 1, 2),
                 effect_distance(run.tpm, run.state, run.n_nodes))
       /\ Computed => (/\ ~is_error(ret.value)
                       /\ ret.value.phi = run.phi
                       /\ ~RLess(ret.value.phi, RZero))

\* compute_phi for XOR at (0, 1): both nodes of XOR take the same value, so
\* no row gives (0, 1); the cause information is 5/2 and phi 3.5 is
\* returned
C26_XorAtUnreachableState ==
    /\ ret.op = "compute_phi"
    /\ Computed
    /\ NoRowProduces
    /\ run.tpm = xor_2_network.tpm
    /\ run.state = <<0, 1>>
    /\ cause_distance(run.tpm, run.state, 2) = <<5, 2>>
    /\ ~is_error(ret.value)
    /\ ret.value.phi = <<7, 2>>

\* the place in the enumeration of the split that mirrors the k-th
MirrorOf(k) ==
    CHOOSE j \in 1..(Pow2(run.n_nodes) - 2) :
        SplitOf(j).a = SplitOf(k).b /\ SplitOf(j).b = SplitOf(k).a

\* C27: in every run the split (A, B) and the split (B, A) have the same
\* score, and the cut returned for a network of two nodes or more, in the
\* run and in every result recorded, has a first side of at most as many
\* nodes as its second.
C27_SmallerSideFirst ==
    /\ (run.ran /\ run.n_nodes >= 2)
       => /\ Len(run.scores) = Pow2(run.n_nodes) - 2
          /\ \A k \in 1..Len(run.scores) :
                run.scores[k] = run.scores[MirrorOf(k)]
          /\ Len(run.best_cut[1]) <= Len(run.best_cut[2])
    /\ \A key \in DOMAIN results :
          (/\ ~is_error(results[key])
           /\ NodesOf(networks[lookup(networks, key, TRUE)[1]]) >= 2)
          => Len(results[key].mip_cut[1]) <= Len(results[key].mip_cut[2])
    /\ \A s \in seen : Len(s[4]) = 2 => Len(s[4][1]) <= Len(s[4][2])

\* a run on three nodes with a phi above 0: the cut returned has one node
\* on its first side, and the mirrored split, met later, has the same
\* score, the smallest
C27_MirrorMetLater ==
    /\ run.ran
    /\ run.n_nodes = 3
    /\ RPos(run.phi)
    /\ Len(run.best_cut[1]) = 1
    /\ Len(run.best_cut[2]) = 2
    /\ \E k \in 1..3 :
          /\ CutOf(SplitOf(k)) = run.best_cut
          /\ MirrorOf(k) > k
          /\ run.scores[MirrorOf(k)] = run.min_phi
          /\ run.scores[k] = run.min_phi

\* the hash of the k-th line of PROOFS.jsonl, the genesis hash for k = 0
HashOfLine(k) ==
    IF k = 0 THEN GenesisEvo ELSE Get(proof_file.lines[k].entry, "hash", <<>>)

\* every call made so far has returned
AllReturned == \A p \in Procs : procs[p].pc = "idle"

\* C28, as stated: whatever the interleaving of the processes' calls, each
\* line of PROOFS.jsonl has the hash of the line before it as prev_hash,
\* the genesis hash for the first, and once all calls have returned the
\* state file has the hash of the last line as last_hash and the number of
\* lines as evolution_count.
C28_ChainUnbroken ==
    /\ \A k \in 1..Len(proof_file.lines) :
          Get(proof_file.lines[k].entry, "prev_hash", <<>>) = HashOfLine(k - 1)
    /\ AllReturned
       => /\ load_evo_state(state_file).state.last_hash
             = HashOfLine(Len(proof_file.lines))
          /\ load_evo_state(state_file).state.evolution_count
             = Len(proof_file.lines)

\* C29, as stated: a ledger written by _append_proof calls made one after
\* the other, from an empty ledger, passes the standalone verifier:
\* load_proofs reads it and verify_chain reports no prev_hash mismatch and
\* no hash mismatch.
C29_StandaloneAccepts ==
    (/\ ret.op = "verify_proof_chain"
     /\ proof_file.exists
     /\ proof_file.lines = appended)
    => (~ret.raised /\ ret.errors = <<>>)

\* C30, as stated: verify_chain() without a limit reports BROKEN whenever
\* PROOFS.jsonl differs from the lines that were appended, and INTACT only
\* when it is those lines.
C30_EditsReported ==
    (ret.op = "verify_chain" /\ proof_file.exists)
    => (ret.value.chain_integrity = "INTACT"
        <=> proof_file.lines = appended)

====
